---- MODULE Spec2Model ----
(***************************************************************************)
(* Flash-sale allocation engine: checkout handler (CheckoutHandler.Handle) *)
(* and purchase engine (PurchaseUseCase.ExecutePurchase / attemptPurchase) *)
(* over the durable store (PostgreSQL, SERIALIZABLE purchase transactions) *)
(* and the coordination store (Redis counters, keys, lock, bloom filter).  *)
(*                                                                         *)
(* Every request is a process that runs its handler one store call at a    *)
(* time; requests interleave between calls.                                *)
(***************************************************************************)
EXTENDS Integers, Sequences, FiniteSets, TLC

\* ---------------------------------------------------------------- bounds
NumProcs == 2          \* request goroutines that may run concurrently
MaxCalls == 3          \* checkout / purchase requests issued in one behaviour
RaceCalls == 2         \* requests issued after the prepared checkouts (SpecRace)
MaxScriptCount == 3    \* largest item count a limit script is called with
Procs == 1..NumProcs
Users == {"u1", "u2"}
Items == {"I1", "I2"}
Codes == 1..MaxCalls   \* checkout codes; a fresh code is the next unused number

NoUser == "none"
NoItem == "none"
NoCode == 0
NoTime == -1

\* ------------------------------------------------------ program constants
\* retryAttempts of NewPurchaseUseCase
RetryAttempts == 2
\* the sale row created with the inventory: [started_at, ended_at)
StartedAt == 0
EndedAt == 2
TotalItems == Cardinality(Items)
\* filter geometry (m bits, k hash functions), scaled
BloomM == 4
BloomK == 2

VARIABLES
  now,              \* wall clock
  items,            \* items table: id -> [sold, soldTo, soldAt] (committed)
  saleItemsSold,    \* sales.items_sold                        (committed)
  purchaseResults,  \* purchase_results: code -> result        (committed)
  checkoutItems,    \* checkout_attempts |x| checkout_items, in added_at order
  userCount,        \* user:{U}:sale:{S}:count
  saleCount,        \* sale:{S}:items_sold
  checkoutCount,    \* user:{U}:sale:{S}:checkout_count
  userCode,         \* user:{U}:sale:{S}:checkout
  codeKey,          \* checkout:{code} keys that exist
  checkedItems,     \* user:{U}:sale:{S}:checked_items
  bloomBits,        \* bloom:sold_items, the set bits
  lock,             \* lock:purchase:{code} keys that exist
  hashes,           \* item id -> [h1, h2], the two 64-bit hashes of the id
  maxItemsPerUser,  \* the per-user limit the handlers are constructed with
                    \* (10 in the build, scaled to the modelled inventory)
  nextCode,         \* codes generated so far + 1
  calls,            \* requests issued so far
  pr,               \* per request goroutine: position and locals
  commitLog,        \* history: the committed purchase transactions, in order
  okCheckouts,      \* history: user -> checkout calls answered with a code
  sales,            \* sales table: the rows [startedAt, endedAt], in insertion order
  sched,            \* the sale scheduler: position and the time of its last run
  adm               \* per admin request goroutine: position and the sale to insert

saleVars == <<sales, sched, adm>>

vars == <<now, items, saleItemsSold, purchaseResults, checkoutItems, userCount,
          saleCount, checkoutCount, userCode, codeKey, checkedItems, bloomBits,
          lock, hashes, saleVars, maxItemsPerUser, nextCode, calls, pr, commitLog, okCheckouts>>

dbVars == <<items, saleItemsSold, purchaseResults>>
redisVars == <<userCount, saleCount, checkoutCount, userCode, codeKey,
               checkedItems, bloomBits, lock>>
histVars == <<commitLog, okCheckouts>>

\* the id of the sale the handlers work on, and items.sale_id: the rows of
\* ForeignItems are left from the inventory of an earlier sale
SaleID == "S1"
ForeignItems == {"X1"}
ItemSaleID(i) == IF i \in ForeignItems THEN "S0" ELSE SaleID

\* maxItemsPerSale of NewPurchaseUseCase and NewPurchaseService: the size of
\* the inventory the scheduler creates (10000 in the build for both)
MaxItemsPerSale == Cardinality({i \in DOMAIN items : ItemSaleID(i) = SaleID})

\* per-user limits the model is run with
UserLimits == {1, 2}

\* the sale the checkout and purchase handlers work on
TheSale == [startedAt |-> StartedAt, endedAt |-> EndedAt]

\* the scheduler between two runs, before its first run
SchedIdle == [pc |-> "idle", lastRun |-> NoTime]

\* an admin goroutine without a request
AdminIdle == [pc |-> "idle", startedAt |-> NoTime, endedAt |-> NoTime]

EmptyResult == [items |-> <<>>, total |-> 0, failed |-> 0, success |-> FALSE]

IdleRec ==
  [kind |-> "idle", pc |-> "idle", user |-> NoUser, item |-> NoItem,
   code |-> NoCode, exists |-> FALSE, ids |-> <<>>, attempt |-> 0,
   cnt |-> 0, idx |-> 0,
   txOpen |-> FALSE, txFailed |-> FALSE, snapSold |-> {}, snapSale |-> 0,
   \* NOW() of the open transaction: the time it began
   txNow |-> NoTime,
   marked |-> {}, saleWrite |-> -1, resWrite |-> FALSE,
   successful |-> <<>>, result |-> EmptyResult,
   leakItems |-> {}, leakSale |-> FALSE, leakRes |-> FALSE, leakTx |-> 0,
   ret |-> "",
   \* history: the error the last failed attempt returned
   lastErr |-> "",
   \* history: the calls of cache.IncrementCounters in this invocation
   incs |-> 0,
   \* arguments of a direct cache call: <<itemCount, maxSaleItems, maxUserItems>>
   args |-> <<>>,
   \* history: the request arrived when a purchase of its code had
   \* committed and no invocation with the code was running
   afterCommit |-> FALSE,
   \* history: the codes of the purchase invocations this one overlapped
   overlap |-> {},
   \* history: the invocation committed a purchase transaction
   committed |-> FALSE,
   \* history: every item of the sale was sold when the request arrived
   soldOut |-> FALSE,
   \* history: the request arrived at or after the sale's ended_at
   late |-> FALSE]

\* ------------------------------------------------------------- helpers
Range(s) == {s[k] : k \in DOMAIN s}

\* Sale.IsActive
IsActive(t) == t > StartedAt /\ t < EndedAt

\* SaleRepository.GetActiveSale: WHERE started_at <= NOW() AND ended_at > NOW()
GetActiveSale(t) == StartedAt <= t /\ EndedAt > t

\* RedisBloomFilter.getHashes: hashes[i] = h1 + i*h2, bit = hashes[i] % m
getHashes(element) ==
  {(hashes[element].h1 + i * hashes[element].h2) % BloomM : i \in 0..(BloomK - 1)}

\* RedisBloomFilter.Contains
Contains(element) == getHashes(element) \subseteq bloomBits

\* an Add that writes the bitmap anew with the element's bits only
AddOverwrites(element) == getHashes(element)

\* RedisBloomFilter.Add
Add(element) == bloomBits \cup getHashes(element)

\* hash values of the item ids: ids with distinct bits, and ids that alias
DistinctHashes ==
  [i \in Items |-> IF i = "I1" THEN [h1 |-> 0, h2 |-> 1] ELSE [h1 |-> 2, h2 |-> 1]]
AliasHashes ==
  [i \in Items |-> IF i = "I1" THEN [h1 |-> 0, h2 |-> 1] ELSE [h1 |-> 1, h2 |-> 3]]

\* rows of checkout_items joined to their attempt, for one code
RowsOf(code) == SelectSeq(checkoutItems, LAMBDA r : r.code = code)

\* CheckoutRepository.GetCheckoutByCode: found, user, ItemIDs in added_at order
CheckoutFound(code) == RowsOf(code) # <<>>
CheckoutUser(code) == RowsOf(code)[Len(RowsOf(code))].user
\* an item list that holds the items of every checkout, whatever its code
CheckoutItemIDsOfAll(code) == [k \in 1..Len(checkoutItems) |-> checkoutItems[k].item]

CheckoutItemIDs(code) == [k \in 1..Len(RowsOf(code)) |-> RowsOf(code)[k].item]

\* a fresh checkout_attempts.id (GenerateCheckoutID)
FreshAttempt ==
  CHOOSE a \in 1..(Len(checkoutItems) + 1) :
    \A k \in DOMAIN checkoutItems : checkoutItems[k].att # a

\* Checkout.AddItem: error when the id is already in the loaded list
AddItemFails(ids, itemID) == itemID \in Range(ids)

\* a loop that takes no error for a business-logic error
NoBusinessLogicError(err) == FALSE

\* isBusinessLogicError: identity comparison with the four sentinel errors
isBusinessLogicError(err) ==
  err \in {"CheckoutNotFound", "SaleNotFound", "UserLimitExceeded",
           "CheckoutAlreadyProcessed"}

\* a result that reports every attempted item as bought
ResultAllSold(attemptedItems, successfulPurchases) ==
  [items |-> [k \in 1..Len(attemptedItems) |-> [id |-> attemptedItems[k], sold |-> TRUE]],
   total |-> Len(successfulPurchases),
   failed |-> Len(attemptedItems) - Len(successfulPurchases),
   success |-> Len(successfulPurchases) > 0]

\* PurchaseService.CalculatePurchaseResult
CalculatePurchaseResult(attemptedItems, successfulPurchases) ==
  [items |-> [k \in 1..Len(attemptedItems) |->
                [id |-> attemptedItems[k],
                 sold |-> attemptedItems[k] \in Range(successfulPurchases)]],
   total |-> Len(successfulPurchases),
   failed |-> Len(attemptedItems) - Len(successfulPurchases),
   success |-> Len(successfulPurchases) > 0]

\* a validation that does not look at the sale's interval
ValidateAnyTime(t, itemsSold, currentItemCount, ids) ==
  IF Len(ids) = 0 THEN "NoItemsToPurchase"
  ELSE IF itemsSold + Len(ids) > MaxItemsPerSale THEN "SaleLimitExceeded"
  ELSE IF currentItemCount + Len(ids) > maxItemsPerUser THEN "UserLimitExceeded"
  ELSE IF \E k \in DOMAIN ids : ItemSaleID(ids[k]) # SaleID THEN "ItemNotInSale"
  ELSE ""

\* PurchaseService.ValidatePurchase: "" when valid, else the domain error
ValidatePurchase(t, itemsSold, currentItemCount, ids) ==
  IF ~IsActive(t) THEN "SaleNotActive"
  ELSE IF Len(ids) = 0 THEN "NoItemsToPurchase"
  ELSE IF itemsSold + Len(ids) > MaxItemsPerSale THEN "SaleLimitExceeded"
  ELSE IF currentItemCount + Len(ids) > maxItemsPerUser THEN "UserLimitExceeded"
  ELSE IF \E k \in DOMAIN ids : ItemSaleID(ids[k]) # SaleID THEN "ItemNotInSale"
  ELSE ""

\* ---------------------------------------------------------------- Init
Init ==
  /\ now = StartedAt + 1
  /\ items = [i \in Items |-> [sold |-> FALSE, soldTo |-> NoUser, soldAt |-> NoTime]]
  /\ saleItemsSold = 0
  /\ purchaseResults = <<>>
  /\ checkoutItems = <<>>
  /\ userCount = [u \in Users |-> 0]
  /\ saleCount = 0
  /\ checkoutCount = [u \in Users |-> 0]
  /\ userCode = [u \in Users |-> NoCode]
  /\ codeKey = {}
  /\ checkedItems = [u \in Users |-> {}]
  /\ bloomBits = {}
  /\ lock = {}
  /\ hashes = DistinctHashes
  /\ maxItemsPerUser \in UserLimits
  /\ nextCode = 1
  /\ calls = 0
  /\ pr = [p \in Procs |-> IdleRec]
  /\ commitLog = <<>>
  /\ okCheckouts = [u \in Users |-> 0]
  /\ sales = <<TheSale>>
  /\ sched = SchedIdle
  /\ adm = [p \in Procs |-> AdminIdle]

\* ------------------------------------------------- prepared checkouts
\* States the service is in after the checkout requests of two users have
\* returned and before any purchase is made.  rows is the content of
\* checkout_attempts |x| checkout_items, ucode the user -> code keys, last the
\* requests the goroutines served last, limits the per-user limits under
\* which the checkouts get that far.
Row(a, c, u, i) == [att |-> a, code |-> c, user |-> u, item |-> i]
DoneCheckout(u, i, c) ==
  [IdleRec EXCEPT !.kind = "checkout", !.pc = "done", !.user = u, !.item = i,
                  !.code = c, !.ret = "ok"]
Prepared ==
  { \* one item, wanted by both users
    [rows |-> <<Row(1, 1, "u1", "I1"), Row(2, 2, "u2", "I1")>>,
     ucode |-> [u \in Users |-> IF u = "u1" THEN 1 ELSE 2],
     last |-> <<DoneCheckout("u2", "I1", 2), IdleRec>>, limits |-> {1, 2}],
    \* two items against one
    [rows |-> <<Row(1, 1, "u1", "I1"), Row(1, 1, "u1", "I2"), Row(2, 2, "u2", "I1")>>,
     ucode |-> [u \in Users |-> IF u = "u1" THEN 1 ELSE 2],
     last |-> <<DoneCheckout("u2", "I1", 2), IdleRec>>, limits |-> {2}],
    \* the same two items in opposite orders
    [rows |-> <<Row(1, 1, "u1", "I1"), Row(1, 1, "u1", "I2"),
                Row(2, 2, "u2", "I2"), Row(2, 2, "u2", "I1")>>,
     ucode |-> [u \in Users |-> IF u = "u1" THEN 1 ELSE 2],
     last |-> <<DoneCheckout("u2", "I1", 2), IdleRec>>, limits |-> {2}],
    \* two checkout requests of u1 that ran concurrently: both found no code
    \* under the user's key and generated one each
    [rows |-> <<Row(1, 1, "u1", "I1"), Row(2, 2, "u1", "I2")>>,
     ucode |-> [u \in Users |-> IF u = "u1" THEN 2 ELSE NoCode],
     last |-> <<DoneCheckout("u1", "I1", 1), DoneCheckout("u1", "I2", 2)>>,
     limits |-> {1, 2}] }

ItemsOfUser(rows, u) == {rows[k].item : k \in {j \in DOMAIN rows : rows[j].user = u}}
RowsOfUser(rows, u) == Cardinality({j \in DOMAIN rows : rows[j].user = u})

InitRace ==
  \E s \in Prepared :
    /\ now = StartedAt + 1
    /\ items = [i \in Items |-> [sold |-> FALSE, soldTo |-> NoUser, soldAt |-> NoTime]]
    /\ saleItemsSold = 0
    /\ purchaseResults = <<>>
    /\ checkoutItems = s.rows
    /\ userCount = [u \in Users |-> 0]
    /\ saleCount = 0
    /\ checkoutCount = [u \in Users |-> RowsOfUser(s.rows, u)]
    /\ userCode = s.ucode
    /\ codeKey = {s.rows[k].code : k \in DOMAIN s.rows}
    /\ checkedItems = [u \in Users |-> ItemsOfUser(s.rows, u)]
    /\ bloomBits = {}
    /\ lock = {}
    /\ hashes = DistinctHashes
    /\ maxItemsPerUser \in s.limits
    /\ nextCode = 3
    /\ calls = MaxCalls - RaceCalls
    /\ pr = [p \in Procs |-> IF p <= 2 THEN s.last[p] ELSE IdleRec]
    /\ commitLog = <<>>
    /\ okCheckouts = [u \in Users |-> RowsOfUser(s.rows, u)]
    /\ sales = <<TheSale>>
    /\ sched = SchedIdle
    /\ adm = [p \in Procs |-> AdminIdle]

\* a request returns r: the handler's locals are gone and its context is
\* cancelled, which rolls back every transaction the request left open; the
\* goroutine keeps the request and its answer until it serves the next one
Finished(p, r) ==
  [IdleRec EXCEPT !.kind = pr[p].kind, !.pc = "done", !.user = pr[p].user,
                  !.item = pr[p].item, !.code = pr[p].code, !.ret = r,
                  !.afterCommit = pr[p].afterCommit, !.overlap = pr[p].overlap,
                  !.committed = pr[p].committed, !.ids = pr[p].ids,
                  !.soldOut = pr[p].soldOut, !.late = pr[p].late]

\* the lowest free goroutine takes the next request
Free(p) == pr[p].pc \in {"idle", "done"}
NextIdle(p) == Free(p) /\ \A q \in Procs : q < p => ~Free(q)

\* the clock advances
Tick ==
  /\ now < EndedAt
  /\ now' = now + 1
  /\ UNCHANGED <<dbVars, checkoutItems, redisVars, hashes, saleVars, maxItemsPerUser, nextCode, calls, pr, histVars>>

\* ============================================================ checkout
\* CheckoutHandler.Handle(user_id, item_id), one store call per step
StartCheckout(p) ==
  /\ NextIdle(p)
  /\ calls < MaxCalls
  /\ \E u \in Users, i \in DOMAIN items :
       pr' = [pr EXCEPT ![p] = [IdleRec EXCEPT !.kind = "checkout", !.pc = "c_sale",
                                               !.user = u, !.item = i,
                                               !.late = (now >= EndedAt)]]
  /\ calls' = calls + 1
  /\ UNCHANGED <<now, dbVars, checkoutItems, redisVars, hashes, saleVars, maxItemsPerUser, nextCode, histVars>>

\* saleRepo.GetActiveSale
CheckoutGetActiveSale(p) ==
  /\ pr[p].pc = "c_sale"
  /\ pr' = [pr EXCEPT ![p] =
              IF GetActiveSale(now) THEN [pr[p] EXCEPT !.pc = "c_active"]
              ELSE Finished(p, "SaleNotFound")]
  /\ UNCHANGED <<now, dbVars, checkoutItems, redisVars, hashes, saleVars, maxItemsPerUser, nextCode, calls, histVars>>

\* activeSale.IsActive(time.Now())
CheckoutIsActive(p) ==
  /\ pr[p].pc = "c_active"
  /\ pr' = [pr EXCEPT ![p] =
              IF IsActive(now) THEN [pr[p] EXCEPT !.pc = "c_bloom"]
              ELSE Finished(p, "SaleNotActive")]
  /\ UNCHANGED <<now, dbVars, checkoutItems, redisVars, hashes, saleVars, maxItemsPerUser, nextCode, calls, histVars>>

\* the filter decides on its own whether checkout goes on
BloomRejects(isSold) == isSold

\* cache.ItemExistsInBloomFilter: a positive answer ends the checkout
CheckoutBloom(p) ==
  /\ pr[p].pc = "c_bloom"
  /\ pr' = [pr EXCEPT ![p] =
              IF BloomRejects(Contains(pr[p].item)) THEN Finished(p, "ItemAlreadySold")
              ELSE [pr[p] EXCEPT !.pc = "c_slots1"]]
  /\ UNCHANGED <<now, dbVars, checkoutItems, redisVars, hashes, saleVars, maxItemsPerUser, nextCode, calls, histVars>>

\* cache.GetAvailableCheckoutSlots, first GET (purchased count)
CheckoutSlotsPurchased(p) ==
  /\ pr[p].pc = "c_slots1"
  /\ pr' = [pr EXCEPT ![p] = [pr[p] EXCEPT !.pc = "c_slots2", !.cnt = userCount[pr[p].user]]]
  /\ UNCHANGED <<now, dbVars, checkoutItems, redisVars, hashes, saleVars, maxItemsPerUser, nextCode, calls, histVars>>

\* cache.GetAvailableCheckoutSlots, second GET (checkout count) and the test
CheckoutSlotsCheckedOut(p) ==
  /\ pr[p].pc = "c_slots2"
  /\ LET availableSlots == maxItemsPerUser - pr[p].cnt - checkoutCount[pr[p].user]
     IN pr' = [pr EXCEPT ![p] =
                 IF availableSlots <= 0 THEN Finished(p, "UserLimitExceeded")
                 ELSE [pr[p] EXCEPT !.pc = "c_checked", !.cnt = 0]]
  /\ UNCHANGED <<now, dbVars, checkoutItems, redisVars, hashes, saleVars, maxItemsPerUser, nextCode, calls, histVars>>

\* cache.HasUserCheckedOutItem
CheckoutHasChecked(p) ==
  /\ pr[p].pc = "c_checked"
  /\ pr' = [pr EXCEPT ![p] =
              IF pr[p].item \in checkedItems[pr[p].user]
              THEN Finished(p, "UserAlreadyCheckedOutItem")
              ELSE [pr[p] EXCEPT !.pc = "c_item"]]
  /\ UNCHANGED <<now, dbVars, checkoutItems, redisVars, hashes, saleVars, maxItemsPerUser, nextCode, calls, histVars>>

\* saleRepo.GetItemByID, item.SaleID != activeSale.ID and item.IsSold
CheckoutGetItem(p) ==
  /\ pr[p].pc = "c_item"
  /\ pr' = [pr EXCEPT ![p] =
              IF ItemSaleID(pr[p].item) # SaleID THEN Finished(p, "ItemNotInSale")
              ELSE [pr[p] EXCEPT !.pc = IF items[pr[p].item].sold THEN "c_bloomadd"
                                        ELSE "c_getcode"]]
  /\ UNCHANGED <<now, dbVars, checkoutItems, redisVars, hashes, saleVars, maxItemsPerUser, nextCode, calls, histVars>>

\* cache.AddItemToBloomFilter for a sold item, then ErrItemAlreadySold
CheckoutBloomAdd(p) ==
  /\ pr[p].pc = "c_bloomadd"
  /\ bloomBits' = Add(pr[p].item)
  /\ pr' = [pr EXCEPT ![p] = Finished(p, "ItemAlreadySold")]
  /\ UNCHANGED <<now, dbVars, checkoutItems, userCount, saleCount, checkoutCount,
                 userCode, codeKey, checkedItems, lock, hashes, saleVars, maxItemsPerUser, nextCode, calls, histVars>>

\* cache.GetUserCheckoutCode; when empty, codeGen.GenerateCheckoutCode
CheckoutGetCode(p) ==
  /\ pr[p].pc = "c_getcode"
  /\ IF userCode[pr[p].user] # NoCode
     THEN /\ pr' = [pr EXCEPT ![p] = [pr[p] EXCEPT !.pc = "c_load",
                                                   !.code = userCode[pr[p].user]]]
          /\ UNCHANGED nextCode
     ELSE /\ pr' = [pr EXCEPT ![p] = [pr[p] EXCEPT !.pc = "c_setucode", !.code = nextCode]]
          /\ nextCode' = nextCode + 1
  /\ UNCHANGED <<now, dbVars, checkoutItems, redisVars, hashes, saleVars, maxItemsPerUser, calls, histVars>>

\* cache.SetUserCheckoutCode
CheckoutSetUserCode(p) ==
  /\ pr[p].pc = "c_setucode"
  /\ userCode' = [userCode EXCEPT ![pr[p].user] = pr[p].code]
  /\ pr' = [pr EXCEPT ![p] = [pr[p] EXCEPT !.pc = "c_setcode"]]
  /\ UNCHANGED <<now, dbVars, checkoutItems, userCount, saleCount, checkoutCount,
                 codeKey, checkedItems, bloomBits, lock, hashes, saleVars, maxItemsPerUser, nextCode, calls, histVars>>

\* cache.SetCheckoutCode
CheckoutSetCode(p) ==
  /\ pr[p].pc = "c_setcode"
  /\ codeKey' = codeKey \cup {pr[p].code}
  /\ pr' = [pr EXCEPT ![p] = [pr[p] EXCEPT !.pc = "c_load"]]
  /\ UNCHANGED <<now, dbVars, checkoutItems, userCount, saleCount, checkoutCount,
                 userCode, checkedItems, bloomBits, lock, hashes, saleVars, maxItemsPerUser, nextCode, calls, histVars>>

\* checkoutRepo.GetCheckoutByCode, then checkout.AddItem on the loaded list
CheckoutLoad(p) ==
  /\ pr[p].pc = "c_load"
  /\ pr' = [pr EXCEPT ![p] =
              IF ~CheckoutFound(pr[p].code) THEN [pr[p] EXCEPT !.pc = "c_create"]
              ELSE IF AddItemFails(CheckoutItemIDs(pr[p].code), pr[p].item)
                   THEN Finished(p, "UserAlreadyCheckedOutItem")
                   ELSE [pr[p] EXCEPT !.pc = "c_additem"]]
  /\ UNCHANGED <<now, dbVars, checkoutItems, redisVars, hashes, saleVars, maxItemsPerUser, nextCode, calls, histVars>>

\* checkoutRepo.CreateCheckout: one checkout_attempts row with its item
CheckoutCreate(p) ==
  /\ pr[p].pc = "c_create"
  /\ checkoutItems' = Append(checkoutItems,
        [att |-> FreshAttempt, code |-> pr[p].code, user |-> pr[p].user,
         item |-> pr[p].item])
  /\ pr' = [pr EXCEPT ![p] = [pr[p] EXCEPT !.pc = "c_inc"]]
  /\ UNCHANGED <<now, dbVars, redisVars, hashes, saleVars, maxItemsPerUser, nextCode, calls, histVars>>

\* checkoutRepo.AddItemToCheckout: SELECT id of an attempt row of the code
\* (any one of them), COUNT of the item in that attempt, INSERT.  The
\* UNIQUE(checkout_attempt_id, item_id) constraint and the foreign key make
\* the three statements fail exactly where the combined step fails.
CheckoutAddItem(p) ==
  /\ pr[p].pc = "c_additem"
  /\ IF ~CheckoutFound(pr[p].code)
     THEN /\ pr' = [pr EXCEPT ![p] = Finished(p, "CheckoutNotFound")]
          /\ UNCHANGED checkoutItems
     ELSE \E a \in {r.att : r \in Range(RowsOf(pr[p].code))} :
            IF \E r \in Range(checkoutItems) : r.att = a /\ r.item = pr[p].item
            THEN /\ pr' = [pr EXCEPT ![p] = Finished(p, "ItemAlreadyInCheckout")]
                 /\ UNCHANGED checkoutItems
            ELSE /\ checkoutItems' = Append(checkoutItems,
                       [att |-> a, code |-> pr[p].code, user |-> CheckoutUser(pr[p].code),
                        item |-> pr[p].item])
                 /\ pr' = [pr EXCEPT ![p] = [pr[p] EXCEPT !.pc = "c_inc"]]
  /\ UNCHANGED <<now, dbVars, redisVars, hashes, saleVars, maxItemsPerUser, nextCode, calls, histVars>>

\* a checkout that counts its item on the purchased-items counter of the user
CheckoutCountsPurchase(p) ==
  /\ pr[p].pc = "c_inc"
  /\ userCount' = [userCount EXCEPT ![pr[p].user] = @ + 1]
  /\ pr' = [pr EXCEPT ![p] = [pr[p] EXCEPT !.pc = "c_mark"]]
  /\ UNCHANGED <<now, dbVars, checkoutItems, checkoutCount, saleCount, userCode, codeKey,
                 checkedItems, bloomBits, lock, hashes, saleVars, maxItemsPerUser, nextCode, calls, histVars>>

\* cache.IncrementUserCheckoutCount
CheckoutIncrement(p) ==
  /\ pr[p].pc = "c_inc"
  /\ checkoutCount' = [checkoutCount EXCEPT ![pr[p].user] = @ + 1]
  /\ pr' = [pr EXCEPT ![p] = [pr[p] EXCEPT !.pc = "c_mark"]]
  /\ UNCHANGED <<now, dbVars, checkoutItems, userCount, saleCount, userCode, codeKey,
                 checkedItems, bloomBits, lock, hashes, saleVars, maxItemsPerUser, nextCode, calls, histVars>>

\* cache.AddUserCheckedOutItem, then the response with the code
CheckoutMarkChecked(p) ==
  /\ pr[p].pc = "c_mark"
  /\ checkedItems' = [checkedItems EXCEPT ![pr[p].user] = @ \cup {pr[p].item}]
  /\ pr' = [pr EXCEPT ![p] = Finished(p, "ok")]
  /\ okCheckouts' = [okCheckouts EXCEPT ![pr[p].user] = @ + 1]
  /\ UNCHANGED <<now, dbVars, checkoutItems, userCount, saleCount, checkoutCount,
                 userCode, codeKey, bloomBits, lock, hashes, saleVars, maxItemsPerUser, nextCode, calls,
                 commitLog>>

\* ============================================================ purchase
\* a purchase of code c has committed and every invocation with c has returned
CommittedAndReturned(c) ==
  /\ c \in DOMAIN purchaseResults
  /\ \A q \in Procs : pr[q].kind = "purchase" /\ pr[q].code = c => pr[q].pc = "done"

\* the invocations of ExecutePurchase that have not returned
RunningPurchases == {q \in Procs : pr[q].kind = "purchase" /\ pr[q].pc # "done"}

\* PurchaseUseCase.ExecutePurchase(code), one store call per step
StartPurchase(p) ==
  /\ NextIdle(p)
  /\ calls < MaxCalls
  /\ \E c \in 1..nextCode :
       /\ c \in Codes
       /\ pr' = [q \in Procs |->
                  IF q = p
                  THEN [IdleRec EXCEPT !.kind = "purchase", !.pc = "p_exists",
                                       !.code = c,
                                       !.afterCommit = CommittedAndReturned(c),
                                       !.overlap = {pr[r].code : r \in RunningPurchases},
                                       !.soldOut = \A i \in DOMAIN items : items[i].sold,
                                       !.late = (now >= EndedAt)]
                  ELSE IF q \in RunningPurchases
                       THEN [pr[q] EXCEPT !.overlap = @ \cup {c}]
                       ELSE pr[q]]
  /\ calls' = calls + 1
  /\ UNCHANGED <<now, dbVars, checkoutItems, redisVars, hashes, saleVars, maxItemsPerUser, nextCode, histVars>>

\* cache.CheckoutCodeExists
PurchaseCodeExists(p) ==
  /\ pr[p].pc = "p_exists"
  /\ pr' = [pr EXCEPT ![p] = [pr[p] EXCEPT !.pc = "p_load",
                                           !.exists = (pr[p].code \in codeKey)]]
  /\ UNCHANGED <<now, dbVars, checkoutItems, redisVars, hashes, saleVars, maxItemsPerUser, nextCode, calls, histVars>>

\* a variant of the lookup that restores the code key in the cache before
\* it has looked the checkout up
PurchaseLoadAfterRestore(p) ==
  /\ pr[p].pc = "p_load"
  /\ codeKey' = codeKey \cup {pr[p].code}
  /\ pr' = [pr EXCEPT ![p] =
              IF ~CheckoutFound(pr[p].code) THEN Finished(p, "CheckoutNotFound")
              ELSE [pr[p] EXCEPT !.pc = "p_lock",
                                 !.user = CheckoutUser(pr[p].code),
                                 !.ids = CheckoutItemIDs(pr[p].code)]]
  /\ UNCHANGED <<now, dbVars, checkoutItems, userCount, saleCount, checkoutCount,
                 userCode, checkedItems, bloomBits, lock, hashes, saleVars, maxItemsPerUser, nextCode, calls, histVars>>

\* checkoutRepo.GetCheckoutByCode
PurchaseLoad(p) ==
  /\ pr[p].pc = "p_load"
  /\ pr' = [pr EXCEPT ![p] =
              IF ~CheckoutFound(pr[p].code) THEN Finished(p, "CheckoutNotFound")
              ELSE [pr[p] EXCEPT !.pc = IF pr[p].exists THEN "p_lock" ELSE "p_restore",
                                 !.user = CheckoutUser(pr[p].code),
                                 !.ids = CheckoutItemIDs(pr[p].code)]]
  /\ UNCHANGED <<now, dbVars, checkoutItems, redisVars, hashes, saleVars, maxItemsPerUser, nextCode, calls, histVars>>

\* cache.SetCheckoutCode when the key was absent
PurchaseRestore(p) ==
  /\ pr[p].pc = "p_restore"
  /\ codeKey' = codeKey \cup {pr[p].code}
  /\ pr' = [pr EXCEPT ![p] = [pr[p] EXCEPT !.pc = "p_lock"]]
  /\ UNCHANGED <<now, dbVars, checkoutItems, userCount, saleCount, checkoutCount,
                 userCode, checkedItems, bloomBits, lock, hashes, saleVars, maxItemsPerUser, nextCode, calls, histVars>>

\* cache.DistributedLock: SETNX lock:purchase:{code}
PurchaseLock(p) ==
  /\ pr[p].pc = "p_lock"
  /\ IF pr[p].code \in lock
     THEN /\ pr' = [pr EXCEPT ![p] = Finished(p, "LockDenied")]
          /\ UNCHANGED lock
     ELSE /\ lock' = lock \cup {pr[p].code}
          /\ pr' = [pr EXCEPT ![p] = [pr[p] EXCEPT !.pc = "p_log", !.attempt = 0, !.idx = 1]]
  /\ UNCHANGED <<now, dbVars, checkoutItems, userCount, saleCount, checkoutCount,
                 userCode, codeKey, checkedItems, bloomBits, hashes, saleVars, maxItemsPerUser, nextCode, calls, histVars>>

\* the lock key's 3 s TTL runs out while the key exists
LockExpire ==
  /\ \E c \in lock : lock' = lock \ {c}
  /\ UNCHANGED <<now, dbVars, checkoutItems, userCount, saleCount, checkoutCount,
                 userCode, codeKey, checkedItems, bloomBits, hashes, saleVars, maxItemsPerUser, nextCode, calls,
                 pr, histVars>>

\* ---- attemptPurchase
\* checkoutRepo.LogCheckoutAttempt for the next item of checkout.ItemIDs:
\* a new checkout_attempts row of the same code with one checkout_items row
PurchaseLog(p) ==
  /\ pr[p].pc = "p_log"
  /\ checkoutItems' = Append(checkoutItems,
        [att |-> FreshAttempt, code |-> pr[p].code, user |-> pr[p].user,
         item |-> pr[p].ids[pr[p].idx]])
  /\ pr' = [pr EXCEPT ![p] =
              IF pr[p].idx < Len(pr[p].ids) THEN [pr[p] EXCEPT !.idx = @ + 1]
              ELSE [pr[p] EXCEPT !.pc = "p_ucount", !.idx = 0]]
  /\ UNCHANGED <<now, dbVars, redisVars, hashes, saleVars, maxItemsPerUser, nextCode, calls, histVars>>

\* cache.GetUserItemCount
PurchaseUserCount(p) ==
  /\ pr[p].pc = "p_ucount"
  /\ pr' = [pr EXCEPT ![p] = [pr[p] EXCEPT !.pc = "p_scount", !.cnt = userCount[pr[p].user]]]
  /\ UNCHANGED <<now, dbVars, checkoutItems, redisVars, hashes, saleVars, maxItemsPerUser, nextCode, calls, histVars>>

\* an attempt returns err: the retry loop of ExecutePurchase decides.
\* leak: the transaction was left open by the return (no rollback ran).
AttemptFail(p, err, leak) ==
  LET closed == [pr[p] EXCEPT
                   !.txOpen = FALSE, !.txFailed = FALSE, !.snapSold = {}, !.snapSale = 0,
                   !.txNow = NoTime,
                   !.marked = {}, !.saleWrite = -1, !.resWrite = FALSE,
                   !.successful = <<>>, !.result = EmptyResult, !.cnt = 0, !.idx = 0,
                   !.leakItems = IF leak THEN @ \cup pr[p].marked ELSE @,
                   !.leakSale = IF leak THEN @ \/ (pr[p].saleWrite # -1) ELSE @,
                   !.leakRes = IF leak THEN @ \/ pr[p].resWrite ELSE @,
                   !.leakTx = IF leak THEN @ + 1 ELSE @,
                   !.lastErr = err]
  IN IF isBusinessLogicError(err) \/ pr[p].attempt >= RetryAttempts - 1
     THEN [closed EXCEPT !.pc = "p_unlock", !.ret = err]
     ELSE [closed EXCEPT !.pc = "p_log", !.attempt = @ + 1, !.idx = 1]

\* cache.GetSaleItemCount and the two advisory limit checks
PurchasePreCheck(p) ==
  /\ pr[p].pc = "p_scount"
  /\ pr' = [pr EXCEPT ![p] =
              IF saleCount + Len(pr[p].ids) > MaxItemsPerSale
              THEN AttemptFail(p, "SaleLimitExceeded", FALSE)
              ELSE IF pr[p].cnt + Len(pr[p].ids) > maxItemsPerUser
                   THEN AttemptFail(p, "UserLimitExceeded", FALSE)
                   ELSE [pr[p] EXCEPT !.pc = "p_txread", !.cnt = 0]]
  /\ UNCHANGED <<now, dbVars, checkoutItems, redisVars, hashes, saleVars, maxItemsPerUser, nextCode, calls, histVars>>

\* saleRepo.BeginTx (SERIALIZABLE); the first query fixes the snapshot that
\* GetPurchaseResult, GetSaleByID and every GetItemByID read; ValidatePurchase
PurchaseTxRead(p) ==
  /\ pr[p].pc = "p_txread"
  /\ LET opened == [pr[p] EXCEPT !.txOpen = TRUE, !.txNow = now,
                                 !.snapSold = {i \in DOMAIN items : items[i].sold},
                                 !.snapSale = saleItemsSold]
         verr == ValidatePurchase(now, saleItemsSold, 0, pr[p].ids)
     IN pr' = [pr EXCEPT ![p] =
                 IF pr[p].code \in DOMAIN purchaseResults
                 THEN AttemptFail(p, "CheckoutAlreadyProcessed", TRUE)
                 ELSE IF verr # ""
                      THEN AttemptFail(p, "purchase validation failed: " \o verr, TRUE)
                      ELSE [opened EXCEPT !.pc = "p_bloom", !.idx = 1, !.successful = <<>>]]
  /\ UNCHANGED <<now, dbVars, checkoutItems, redisVars, hashes, saleVars, maxItemsPerUser, nextCode, calls, histVars>>

\* next iteration of the per-item loop, or the code after it
NextItem(rec) ==
  IF rec.idx < Len(rec.ids) THEN [rec EXCEPT !.pc = "p_bloom", !.idx = @ + 1]
  ELSE [rec EXCEPT !.pc = "p_incr", !.idx = 0]

\* cache.ItemExistsInBloomFilter: a positive answer skips the item
PurchaseBloom(p) ==
  /\ pr[p].pc = "p_bloom"
  /\ pr' = [pr EXCEPT ![p] =
              IF Contains(pr[p].ids[pr[p].idx]) THEN NextItem(pr[p])
              ELSE [pr[p] EXCEPT !.pc = "p_mark"]]
  /\ UNCHANGED <<now, dbVars, checkoutItems, redisVars, hashes, saleVars, maxItemsPerUser, nextCode, calls, histVars>>

\* row locks on items held by open transactions other than p's current one
ItemLockedByOther(p, i) ==
  \/ i \in pr[p].leakItems
  \/ \E q \in Procs \ {p} : i \in pr[q].marked \cup pr[q].leakItems

\* UPDATE items SET sold = TRUE ... WHERE id = $1 AND sold = FALSE matches
\* the row: it is unsold in the transaction's snapshot and not yet written
\* by the transaction itself
MarkMatches(rec, i) == i \notin rec.snapSold /\ i \notin rec.marked

\* a transaction that writes over rows changed since its snapshot
NoWriteConflict(committed, seen) == FALSE

\* BeginTx opens the transaction with sql.LevelSerializable: a write to a row
\* whose committed version is not the one the snapshot saw fails with a
\* serialization failure (first updater wins)
WriteConflict(committed, seen) == committed # seen

\* the matched row was changed by a transaction that committed after the
\* snapshot was taken
ItemConflict(rec, i) == WriteConflict(items[i].sold, i \in rec.snapSold)

\* txRepo.MarkItemAsSold
PurchaseMark(p) ==
  /\ pr[p].pc = "p_mark"
  /\ LET i == pr[p].ids[pr[p].idx]
     IN IF pr[p].txFailed
        THEN \* current transaction is aborted: the statement errors, continue
             pr' = [pr EXCEPT ![p] = NextItem(pr[p])]
        ELSE IF ~MarkMatches(pr[p], i)
        THEN \* 0 rows affected
             pr' = [pr EXCEPT ![p] = [pr[p] EXCEPT !.pc = "p_badd"]]
        ELSE /\ ~ItemLockedByOther(p, i)      \* else the UPDATE waits for the row
             /\ IF ItemConflict(pr[p], i)
                THEN \* serialization failure
                     pr' = [pr EXCEPT ![p] = NextItem([pr[p] EXCEPT !.txFailed = TRUE])]
                ELSE pr' = [pr EXCEPT ![p] =
                              [pr[p] EXCEPT !.pc = "p_badd", !.marked = @ \cup {i},
                                            !.successful = Append(@, i)]]
  /\ UNCHANGED <<now, dbVars, checkoutItems, redisVars, hashes, saleVars, maxItemsPerUser, nextCode, calls, histVars>>

\* cache.AddItemToBloomFilter, after 1 row and after 0 rows alike
PurchaseBloomAdd(p) ==
  /\ pr[p].pc = "p_badd"
  /\ bloomBits' = Add(pr[p].ids[pr[p].idx])
  /\ pr' = [pr EXCEPT ![p] = NextItem(pr[p])]
  /\ UNCHANGED <<now, dbVars, checkoutItems, userCount, saleCount, checkoutCount,
                 userCode, codeKey, checkedItems, lock, hashes, saleVars, maxItemsPerUser, nextCode, calls, histVars>>

\* CalculatePurchaseResult, then cache.IncrementCounters when something sold
PurchaseIncrement(p) ==
  /\ pr[p].pc = "p_incr"
  /\ LET n == Len(pr[p].successful)
     IN /\ userCount' = [userCount EXCEPT ![pr[p].user] = @ + n]
        /\ saleCount' = saleCount + n
        /\ pr' = [pr EXCEPT ![p] =
                    [pr[p] EXCEPT !.pc = IF n > 0 THEN "p_upd" ELSE "p_save",
                                  !.incs = IF n > 0 THEN @ + 1 ELSE @,
                                  !.result = CalculatePurchaseResult(pr[p].ids, pr[p].successful)]]
  /\ UNCHANGED <<now, dbVars, checkoutItems, checkoutCount, userCode, codeKey,
                 checkedItems, bloomBits, lock, hashes, saleVars, maxItemsPerUser, nextCode, calls, histVars>>

SaleLockedByOther(p) ==
  \/ pr[p].leakSale
  \/ \E q \in Procs \ {p} : pr[q].saleWrite # -1 \/ pr[q].leakSale

\* the sales row changed after the snapshot was taken
SaleConflict(rec) == WriteConflict(saleItemsSold, rec.snapSale)

\* an update that counts the attempted items
ItemsSoldAttempted(rec) == rec.snapSale + Len(rec.ids)

\* an update that takes the bought items off the counter
ItemsSoldSubtracted(rec) == rec.snapSale - Len(rec.successful)

\* saleEntity.ItemsSold += len(successfulPurchases)
NewItemsSold(rec) == rec.snapSale + Len(rec.successful)

\* txRepo.UpdateSale
PurchaseUpdateSale(p) ==
  /\ pr[p].pc = "p_upd"
  /\ IF pr[p].txFailed
     THEN pr' = [pr EXCEPT ![p] = AttemptFail(p, "failed to update sale", TRUE)]
     ELSE /\ ~SaleLockedByOther(p)            \* else the UPDATE waits for the row
          /\ IF SaleConflict(pr[p])
             THEN pr' = [pr EXCEPT ![p] = AttemptFail(p, "failed to update sale", TRUE)]
             ELSE pr' = [pr EXCEPT ![p] =
                           [pr[p] EXCEPT !.pc = "p_save",
                               !.saleWrite = NewItemsSold(pr[p])]]
  /\ UNCHANGED <<now, dbVars, checkoutItems, redisVars, hashes, saleVars, maxItemsPerUser, nextCode, calls, histVars>>

ResultLockedByOther(p) ==
  \/ pr[p].leakRes
  \/ \E q \in Procs \ {p} : pr[q].code = pr[p].code /\ (pr[q].resWrite \/ pr[q].leakRes)

\* an INSERT that goes through whatever was committed for the code
NoResultConflict(rec) == FALSE

\* a row for the code was committed after the snapshot was taken: under the
\* transaction's isolation level ON CONFLICT DO NOTHING does not skip it but
\* fails with a serialization failure
ResultConflict(rec) == rec.code \in DOMAIN purchaseResults

\* txRepo.SavePurchaseResult: INSERT ... ON CONFLICT (checkout_code) DO NOTHING
PurchaseSaveResult(p) ==
  /\ pr[p].pc = "p_save"
  /\ IF pr[p].txFailed
     THEN pr' = [pr EXCEPT ![p] = AttemptFail(p, "failed to save purchase result", TRUE)]
     ELSE /\ ~ResultLockedByOther(p)          \* else the INSERT waits for the key
          /\ IF ResultConflict(pr[p])
             THEN \* serialization failure
                  pr' = [pr EXCEPT ![p] = AttemptFail(p, "failed to save purchase result", TRUE)]
             ELSE pr' = [pr EXCEPT ![p] = [pr[p] EXCEPT !.pc = "p_commit", !.resWrite = TRUE]]
  /\ UNCHANGED <<now, dbVars, checkoutItems, redisVars, hashes, saleVars, maxItemsPerUser, nextCode, calls, histVars>>

\* a commit that publishes the items and the result row without the sale row
CommitSaleDropped(rec) == saleItemsSold

\* a commit that writes the whole items table from the attempt's own marks
CommitItemsOnly(rec) ==
  [i \in DOMAIN items |-> IF i \in rec.marked
                   THEN [sold |-> TRUE, soldTo |-> rec.user, soldAt |-> rec.txNow]
                   ELSE [sold |-> FALSE, soldTo |-> NoUser, soldAt |-> NoTime]]

\* the attempt's writes become the committed state
CommitItems(rec) ==
  [i \in DOMAIN items |-> IF i \in rec.marked THEN [sold |-> TRUE, soldTo |-> rec.user, soldAt |-> rec.txNow]
                   ELSE items[i]]

CommitSale(rec) == IF rec.saleWrite # -1 THEN rec.saleWrite ELSE saleItemsSold

\* txRepo.CommitTx succeeds; ErrAllItemsSold when nothing was sold
PurchaseCommit(p) ==
  /\ pr[p].pc = "p_commit"
  /\ items' = CommitItems(pr[p])
  /\ saleItemsSold' = CommitSale(pr[p])
  /\ purchaseResults' = (pr[p].code :> pr[p].result) @@ purchaseResults
  /\ commitLog' = Append(commitLog, [code |-> pr[p].code, user |-> pr[p].user,
                                     marked |-> pr[p].marked])
  /\ pr' = [pr EXCEPT ![p] =
              IF Len(pr[p].successful) = 0
              THEN [AttemptFail(p, "AllItemsSold", FALSE) EXCEPT !.committed = TRUE]
              ELSE [pr[p] EXCEPT !.pc = "p_clean1", !.txOpen = FALSE, !.txNow = NoTime,
                                 !.snapSold = {},
                                 !.snapSale = 0, !.marked = {}, !.saleWrite = -1,
                                 !.resWrite = FALSE, !.successful = <<>>,
                                 !.committed = TRUE]]
  /\ UNCHANGED <<now, checkoutItems, redisVars, hashes, saleVars, maxItemsPerUser, nextCode, calls,
                 okCheckouts>>

\* a serialization failure at COMMIT needs a concurrent transaction
CommitMayFail(p) ==
  \/ \E q \in Procs \ {p} : pr[q].txOpen \/ pr[q].leakTx > 0
  \/ {i \in DOMAIN items : items[i].sold} # pr[p].snapSold
  \/ saleItemsSold # pr[p].snapSale

\* txRepo.CommitTx fails: the transaction is rolled back
PurchaseCommitFail(p) ==
  /\ pr[p].pc = "p_commit"
  /\ CommitMayFail(p)
  /\ pr' = [pr EXCEPT ![p] = AttemptFail(p, "failed to commit transaction", FALSE)]
  /\ UNCHANGED <<now, dbVars, checkoutItems, redisVars, hashes, saleVars, maxItemsPerUser, nextCode, calls, histVars>>

\* ---- cleanupCheckout
\* cache.RemoveUserCheckoutCode: DEL of the user's code and checkout_count
PurchaseCleanUser(p) ==
  /\ pr[p].pc = "p_clean1"
  /\ userCode' = [userCode EXCEPT ![pr[p].user] = NoCode]
  /\ checkoutCount' = [checkoutCount EXCEPT ![pr[p].user] = 0]
  /\ pr' = [pr EXCEPT ![p] = [pr[p] EXCEPT !.pc = "p_clean2"]]
  /\ UNCHANGED <<now, dbVars, checkoutItems, userCount, saleCount, codeKey,
                 checkedItems, bloomBits, lock, hashes, saleVars, maxItemsPerUser, nextCode, calls, histVars>>

\* cache.RemoveCheckoutCode
PurchaseCleanCode(p) ==
  /\ pr[p].pc = "p_clean2"
  /\ codeKey' = codeKey \ {pr[p].code}
  /\ pr' = [pr EXCEPT ![p] = [pr[p] EXCEPT !.pc = "p_clean3"]]
  /\ UNCHANGED <<now, dbVars, checkoutItems, userCount, saleCount, checkoutCount,
                 userCode, checkedItems, bloomBits, lock, hashes, saleVars, maxItemsPerUser, nextCode, calls, histVars>>

\* checkoutRepo.DeleteCheckout: every attempt row of the code, items cascade
PurchaseDeleteCheckout(p) ==
  /\ pr[p].pc = "p_clean3"
  /\ checkoutItems' = SelectSeq(checkoutItems, LAMBDA r : r.code # pr[p].code)
  /\ pr' = [pr EXCEPT ![p] = [pr[p] EXCEPT !.pc = "p_unlock", !.ret = "ok"]]
  /\ UNCHANGED <<now, dbVars, redisVars, hashes, saleVars, maxItemsPerUser, nextCode, calls, histVars>>

\* an ExecutePurchase that returns without the deferred ReleaseLock
PurchaseReturnLocked(p) ==
  /\ pr[p].pc = "p_unlock"
  /\ pr' = [pr EXCEPT ![p] = [Finished(p, pr[p].ret) EXCEPT !.result = pr[p].result]]
  /\ UNCHANGED <<now, dbVars, checkoutItems, redisVars, hashes, saleVars, maxItemsPerUser, nextCode, calls, histVars>>

\* deferred cache.ReleaseLock: DEL lock:purchase:{code}; ExecutePurchase returns
PurchaseUnlock(p) ==
  /\ pr[p].pc = "p_unlock"
  /\ lock' = lock \ {pr[p].code}
  /\ pr' = [pr EXCEPT ![p] = [Finished(p, pr[p].ret) EXCEPT !.result = pr[p].result]]
  /\ UNCHANGED <<now, dbVars, checkoutItems, userCount, saleCount, checkoutCount,
                 userCode, codeKey, checkedItems, bloomBits, hashes, saleVars, maxItemsPerUser, nextCode, calls, histVars>>

CheckoutStep(p) ==
  \/ StartCheckout(p) \/ CheckoutGetActiveSale(p) \/ CheckoutIsActive(p)
  \/ CheckoutBloom(p) \/ CheckoutSlotsPurchased(p) \/ CheckoutSlotsCheckedOut(p)
  \/ CheckoutHasChecked(p) \/ CheckoutGetItem(p) \/ CheckoutBloomAdd(p)
  \/ CheckoutGetCode(p) \/ CheckoutSetUserCode(p) \/ CheckoutSetCode(p)
  \/ CheckoutLoad(p) \/ CheckoutCreate(p) \/ CheckoutAddItem(p)
  \/ CheckoutIncrement(p) \/ CheckoutMarkChecked(p)

PurchaseStep(p) ==
  \/ StartPurchase(p) \/ PurchaseCodeExists(p) \/ PurchaseLoad(p)
  \/ PurchaseRestore(p) \/ PurchaseLock(p) \/ PurchaseLog(p)
  \/ PurchaseUserCount(p) \/ PurchasePreCheck(p) \/ PurchaseTxRead(p)
  \/ PurchaseBloom(p) \/ PurchaseMark(p) \/ PurchaseBloomAdd(p)
  \/ PurchaseIncrement(p) \/ PurchaseUpdateSale(p) \/ PurchaseSaveResult(p)
  \/ PurchaseCommit(p) \/ PurchaseCommitFail(p) \/ PurchaseCleanUser(p)
  \/ PurchaseCleanCode(p) \/ PurchaseDeleteCheckout(p) \/ PurchaseUnlock(p)

Next ==
  \/ Tick
  \/ LockExpire
  \/ \E p \in Procs : CheckoutStep(p) \/ PurchaseStep(p)

Spec == Init /\ [][Next]_vars
SpecRace == InitRace /\ [][Next]_vars

\* ===================================================== the cache scripts
\* The limit scripts of the cache, called on their own: no handler of the
\* service calls them.
\* a script that increments the sale counter only
LuaScriptSaleOnly(currentSale, currentUser, itemCount, maxSaleItems, maxUserItems) ==
  IF currentSale + itemCount > maxSaleItems
  THEN [ret |-> 0, sale |-> currentSale, user |-> currentUser]
  ELSE IF itemCount > maxUserItems - currentUser
       THEN [ret |-> 0, sale |-> currentSale, user |-> currentUser]
       ELSE [ret |-> 1, sale |-> currentSale + itemCount, user |-> currentUser]

\* purchaseLuaScript: the value returned and the two counters it leaves
purchaseLuaScript(currentSale, currentUser, itemCount, maxSaleItems, maxUserItems) ==
  IF currentSale + itemCount > maxSaleItems
  THEN [ret |-> 0, sale |-> currentSale, user |-> currentUser]
  ELSE IF itemCount > maxUserItems - currentUser
       THEN [ret |-> 0, sale |-> currentSale, user |-> currentUser]
       ELSE [ret |-> 1, sale |-> currentSale + itemCount,
             user |-> currentUser + itemCount]

\* item counts and limits the scripts are called with
ScriptCounts == 0..MaxScriptCount
ScriptSaleLimits == {1, MaxItemsPerSale, MaxItemsPerSale + 1}

\* Cache.AtomicPurchaseCheck(saleID, userID, itemCount, maxSaleItems,
\* maxUserItems): the script runs as one step of the store
AtomicPurchaseCheck(p) ==
  /\ Free(p)
  /\ \E u \in Users, n \in ScriptCounts, ms \in ScriptSaleLimits, mu \in UserLimits :
       LET out == purchaseLuaScript(saleCount, userCount[u], n, ms, mu)
       IN /\ saleCount' = out.sale
          /\ userCount' = [userCount EXCEPT ![u] = out.user]
          /\ pr' = [pr EXCEPT ![p] =
                      [IdleRec EXCEPT !.kind = "script", !.pc = "done", !.user = u,
                                      !.args = <<n, ms, mu>>,
                                      !.ret = IF out.ret = 1 THEN "true" ELSE "false"]]
  /\ UNCHANGED <<now, dbVars, checkoutItems, checkoutCount, userCode, codeKey,
                 checkedItems, bloomBits, lock, hashes, saleVars, maxItemsPerUser, nextCode,
                 calls, histVars>>

NextScript == \E p \in Procs : AtomicPurchaseCheck(p)
SpecScript == Init /\ [][NextScript]_vars

\* ---- the single-key limit scripts
\* the reply of GET for a key that does not exist
NilReply == -1

\* the replies GET can give for a counter of value v: a counter that was never
\* written does not exist
GetReplies(v) == IF v = 0 THEN {NilReply, 0} ELSE {v}

\* tonumber(redis.call('GET', key) or 0)
OrZero(reply) == IF reply = NilReply THEN 0 ELSE reply

\* a limit script that refuses the call that reaches the limit exactly
LimitScriptStrict(reply, itemCount, maxItems) ==
  IF OrZero(reply) + itemCount >= maxItems
  THEN [ret |-> 0, key |-> reply]
  ELSE [ret |-> 1, key |-> OrZero(reply) + itemCount]

\* userLimitLuaScript: the value returned and the key it leaves (INCRBY, and
\* EXPIRE of 24 h, which no behaviour of the model outlasts)
userLimitLuaScript(reply, itemCount, maxItems) ==
  IF OrZero(reply) + itemCount > maxItems
  THEN [ret |-> 0, key |-> reply]
  ELSE [ret |-> 1, key |-> OrZero(reply) + itemCount]

\* saleLimitLuaScript
saleLimitLuaScript(reply, itemCount, maxItems) ==
  IF OrZero(reply) + itemCount > maxItems
  THEN [ret |-> 0, key |-> reply]
  ELSE [ret |-> 1, key |-> OrZero(reply) + itemCount]

\* Cache.AtomicUserLimitCheck(saleID, userID, itemCount, maxItems)
AtomicUserLimitCheck(p) ==
  /\ Free(p)
  /\ \E u \in Users, n \in ScriptCounts, m \in UserLimits :
       \E reply \in GetReplies(userCount[u]) :
         LET out == userLimitLuaScript(reply, n, m)
         IN /\ userCount' = [userCount EXCEPT ![u] = OrZero(out.key)]
            /\ pr' = [pr EXCEPT ![p] =
                        [IdleRec EXCEPT !.kind = "userlimit", !.pc = "done", !.user = u,
                                        !.args = <<n, m>>,
                                        !.ret = IF out.ret = 1 THEN "true" ELSE "false"]]
  /\ UNCHANGED <<now, dbVars, checkoutItems, saleCount, checkoutCount, userCode, codeKey,
                 checkedItems, bloomBits, lock, hashes, saleVars, maxItemsPerUser, nextCode,
                 calls, histVars>>

\* Cache.AtomicSaleLimitCheck(saleID, itemCount, maxItems)
AtomicSaleLimitCheck(p) ==
  /\ Free(p)
  /\ \E n \in ScriptCounts, m \in ScriptSaleLimits :
       \E reply \in GetReplies(saleCount) :
         LET out == saleLimitLuaScript(reply, n, m)
         IN /\ saleCount' = OrZero(out.key)
            /\ pr' = [pr EXCEPT ![p] =
                        [IdleRec EXCEPT !.kind = "salelimit", !.pc = "done",
                                        !.args = <<n, m>>,
                                        !.ret = IF out.ret = 1 THEN "true" ELSE "false"]]
  /\ UNCHANGED <<now, dbVars, checkoutItems, userCount, checkoutCount, userCode, codeKey,
                 checkedItems, bloomBits, lock, hashes, saleVars, maxItemsPerUser, nextCode,
                 calls, histVars>>

NextLimits == \E p \in Procs : AtomicUserLimitCheck(p) \/ AtomicSaleLimitCheck(p)
SpecLimits == Init /\ [][NextLimits]_vars

\* ================================================================ claims
\* committed purchase transactions in which MarkItemAsSold hit item i
CommitsOf(log, i) == {k \in DOMAIN log : i \in log[k].marked}

\* C1: in every interleaving of purchases, an item is marked sold by at most
\* one committed purchase transaction, and once an item is sold its row
\* (sold, sold_to_user_id) is never written again.
C1_NoDoubleSell ==
  [][ /\ \A i \in Items : Cardinality(CommitsOf(commitLog', i)) <= 1
      /\ \A i \in Items : items[i].sold => items'[i] = items[i] ]_vars

\* a purchase's conditional update met an item that another user's purchase
\* had committed after the transaction took its snapshot: the statement
\* failed and the item kept its buyer
C1_Witness ==
  \E p \in Procs, i \in Items :
    /\ pr[p].txFailed
    /\ i \in Range(pr[p].ids) /\ i \notin pr[p].snapSold /\ i \notin pr[p].marked
    /\ items[i].sold /\ items[i].soldTo # pr[p].user
    /\ Cardinality(CommitsOf(commitLog, i)) = 1

\* the purchase_results records that list item i with sold = true
SoldRecords(i) ==
  {c \in DOMAIN purchaseResults :
     \E k \in DOMAIN purchaseResults[c].items :
       purchaseResults[c].items[k].id = i /\ purchaseResults[c].items[k].sold}

\* C2: for every item at most one committed purchase_results record lists it
\* with sold = true, and a record lists an item with sold = true only if the
\* transaction that committed the record marked that item itself.
C2_SoldOnlyByOwnUpdate ==
  \A i \in Items :
    /\ Cardinality(SoldRecords(i)) <= 1
    /\ \A c \in SoldRecords(i) :
         \E k \in DOMAIN commitLog : commitLog[k].code = c /\ i \in commitLog[k].marked

\* two committed records list the same item: sold in one, not sold in the other
C2_Witness ==
  \E i \in Items, c \in DOMAIN purchaseResults, d \in DOMAIN purchaseResults :
    /\ c \in SoldRecords(i) /\ d \notin SoldRecords(i)
    /\ \E k \in DOMAIN purchaseResults[d].items : purchaseResults[d].items[k].id = i

SoldItems == {i \in Items : items[i].sold}

\* C3: in every state the number of sold items of the sale is at most
\* total_items, and 0 <= items_sold <= total_items.
C3_SaleCap ==
  /\ Cardinality(SoldItems) <= TotalItems
  /\ 0 <= saleItemsSold
  /\ saleItemsSold <= TotalItems

\* the inventory is sold out, by two purchase transactions
C3_Witness ==
  /\ saleItemsSold = TotalItems /\ SoldItems = Items
  /\ \E j \in DOMAIN commitLog, k \in DOMAIN commitLog :
       j # k /\ commitLog[j].marked # {} /\ commitLog[k].marked # {}

\* no purchase invocation is in flight
PurchasesReturned == \A p \in Procs : pr[p].kind = "purchase" => pr[p].pc = "done"

\* C4: once all in-flight purchases have returned, the stored items_sold
\* equals the number of items with sold = true.
C4_ItemsSoldIsCount == PurchasesReturned => saleItemsSold = Cardinality(SoldItems)

\* two purchases ran and returned, one with a sale and one with an error,
\* and something is sold
C4_Witness ==
  /\ \A p \in Procs : pr[p].kind = "purchase" /\ pr[p].pc = "done"
  /\ \E p \in Procs, q \in Procs : pr[p].ret = "ok" /\ pr[q].ret # "ok"
  /\ saleItemsSold > 0

\* the items the durable store records as sold to user u
SoldTo(u) == {i \in Items : items[i].sold /\ items[i].soldTo = u}

\* C5: in every state, for every user, the number of items sold to the user
\* is at most the per-user limit, also when purchases of different checkout
\* codes of the user run concurrently.
C5_UserCap == \A u \in Users : Cardinality(SoldTo(u)) <= maxItemsPerUser

\* the committed purchase transactions of checkout code c
CommitsOfCode(log, c) == {k \in DOMAIN log : log[k].code = c}

\* C6: for any interleaving of purchase invocations with the same checkout
\* code, at most one transaction commits for the code; the purchase_results
\* row of the code is never modified afterwards; and no step of an
\* invocation whose code already has its row changes items, the sale or
\* purchase_results, so the durable state after all invocations have
\* returned is the state the single commit left.
C6_SingleCommitPerCode ==
  [][ /\ \A c \in Codes : Cardinality(CommitsOfCode(commitLog', c)) <= 1
      /\ \A c \in DOMAIN purchaseResults :
           c \in DOMAIN purchaseResults' /\ purchaseResults'[c] = purchaseResults[c]
      /\ \A p \in Procs :
           (pr[p].kind = "purchase" /\ pr[p].code \in DOMAIN purchaseResults
              /\ pr'[p] # pr[p])
           => UNCHANGED dbVars ]_vars

\* two invocations with the same code overlapped (the lock of the first had
\* expired): one committed, the other went through its transaction and
\* returned without a commit
C6_Witness ==
  \E p \in Procs, q \in Procs :
    /\ p # q /\ pr[p].kind = "purchase" /\ pr[q].kind = "purchase"
    /\ pr[p].code = pr[q].code /\ pr[p].code \in DOMAIN purchaseResults
    /\ pr[p].pc \in {"p_clean1", "p_clean2", "p_clean3", "p_unlock", "done"}
    /\ pr[p].ret \in {"", "ok"}
    /\ pr[q].pc = "done"
    /\ pr[q].ret \in {"CheckoutAlreadyProcessed", "failed to save purchase result",
                      "failed to update sale"}
    /\ Cardinality(CommitsOfCode(commitLog, pr[p].code)) = 1

\* C7: an invocation that arrives after a purchase of its code has committed
\* and returned answers CheckoutAlreadyProcessed and changes no item, sale
\* or purchase_results state.
C7_LaterPurchaseAlreadyProcessed ==
  [][ \A p \in Procs :
        (pr'[p].kind = "purchase" /\ pr'[p].afterCommit /\ pr'[p] # pr[p])
        => /\ UNCHANGED dbVars
           /\ pr'[p].pc = "done" => pr'[p].ret = "CheckoutAlreadyProcessed" ]_vars

\* the checkout codes under which user u has a stored checkout
ActiveCodes(u) == {checkoutItems[k].code : k \in {j \in DOMAIN checkoutItems :
                                                   checkoutItems[j].user = u}}

\* C8: a user never has two distinct active checkout codes in the sale, and
\* successful checkout calls of the user that are answered while no purchase
\* has been made return the same code, also when the calls run concurrently.
C8_OneCodePerUser ==
  /\ \A u \in Users : Cardinality(ActiveCodes(u)) <= 1
  /\ commitLog = <<>> =>
       \A p \in Procs, q \in Procs :
         (/\ pr[p].kind = "checkout" /\ pr[q].kind = "checkout"
          /\ pr[p].pc = "done" /\ pr[q].pc = "done"
          /\ pr[p].ret = "ok" /\ pr[q].ret = "ok"
          /\ pr[p].user = pr[q].user)
         => pr[p].code = pr[q].code

NoDuplicates(seq) == \A j \in DOMAIN seq, k \in DOMAIN seq : seq[j] = seq[k] => j = k

\* C9: the item list GetCheckoutByCode loads for a code never contains the
\* same item id twice, whatever checkout calls and purchase attempts (with
\* their LogCheckoutAttempt rows) have run on the code.
C9_NoDuplicateItems == \A c \in Codes : NoDuplicates(CheckoutItemIDs(c))

\* C10: checkout fails with ItemAlreadySold only when the item's row in the
\* durable store has sold = true; a positive filter answer alone never
\* makes checkout reject an unsold item.
C10_RejectOnlySold ==
  \A p \in Procs :
    (pr[p].kind = "checkout" /\ pr[p].pc = "done" /\ pr[p].ret = "ItemAlreadySold")
    => items[pr[p].item].sold

\* C11: the sold-items filter has no false negatives: no step clears a
\* filter bit, and when an Add of an item has completed the item's bits are
\* all set, so every later Contains of the item answers true.
C11_NoFalseNegatives ==
  [][ /\ bloomBits \subseteq bloomBits'
      /\ \A p \in Procs :
           (pr[p].pc = "p_badd" /\ pr'[p].pc # pr[p].pc)
           => getHashes(pr[p].ids[pr[p].idx]) \subseteq bloomBits'
      /\ \A p \in Procs :
           (pr[p].pc = "c_bloomadd" /\ pr'[p].pc # pr[p].pc)
           => getHashes(pr[p].item) \subseteq bloomBits' ]_vars

\* both items have been added to the filter and a later look-up of one of
\* them, by a purchase, finds it
C11_Witness ==
  /\ \A i \in Items : Contains(i)
  /\ \E p \in Procs :
       /\ pr[p].pc = "p_bloom" /\ Contains(pr[p].ids[pr[p].idx])
       /\ pr[p].marked = {}

\* C12: admission against the per-user and per-sale limits is atomic with
\* the counter increment, so the requests that pass a limit check never
\* increment a counter past the limit it was checked against.
C12_AdmissionAtomic ==
  /\ \A u \in Users : checkoutCount[u] <= maxItemsPerUser
  /\ \A u \in Users : userCount[u] <= maxItemsPerUser
  /\ saleCount <= MaxItemsPerSale

\* C13: AtomicPurchaseCheck called with (n, max_sale, max_user) either adds
\* exactly n to both the sale counter and the user's counter and answers
\* true, which it does when sale_count + n <= max_sale and
\* user_count + n <= max_user, or answers false and leaves both counters as
\* they were; it never increments only one of the two.
C13_ScriptBothOrNeither ==
  [][ \E p \in Procs, u \in Users :
        /\ pr'[p].kind = "script" /\ pr'[p].user = u
        /\ \A v \in Users \ {u} : userCount'[v] = userCount[v]
        /\ LET n == pr'[p].args[1]
               fits == /\ saleCount + n <= pr'[p].args[2]
                       /\ userCount[u] + n <= pr'[p].args[3]
           IN IF fits
              THEN /\ pr'[p].ret = "true"
                   /\ saleCount' = saleCount + n
                   /\ userCount'[u] = userCount[u] + n
              ELSE /\ pr'[p].ret = "false"
                   /\ saleCount' = saleCount
                   /\ userCount'[u] = userCount[u] ]_vars

\* the script has admitted calls and then refused one at the user's limit
\* while the sale limit still had room
C13_Witness ==
  \E p \in Procs :
    /\ pr[p].kind = "script" /\ pr[p].ret = "false"
    /\ pr[p].args[1] > 0
    /\ saleCount > 0 /\ saleCount + pr[p].args[1] <= pr[p].args[2]
    /\ userCount[pr[p].user] + pr[p].args[1] > pr[p].args[3]

\* user u has bought something
HasPurchased(u) == \E k \in DOMAIN commitLog : commitLog[k].user = u /\ commitLog[k].marked # {}

\* C14: while a user has purchased nothing, at most max_user_items of the
\* user's checkout calls succeed, in any interleaving: once that many have
\* succeeded every further call of the user is refused.
C14_CheckoutCap ==
  \A u \in Users : ~HasPurchased(u) => okCheckouts[u] <= maxItemsPerUser


\* invocation p of ExecutePurchase is between its successful DistributedLock
\* and its deferred ReleaseLock
InLockSection(p) ==
  /\ pr[p].kind = "purchase"
  /\ pr[p].pc \notin {"idle", "done", "p_exists", "p_load", "p_restore", "p_lock"}

\* C15: at most one purchase invocation per checkout code is inside the
\* lock-protected section at any time, also when the lock's TTL runs out
\* while its holder is still running.
C15_OneHolderPerCode ==
  \A p, q \in Procs :
    InLockSection(p) /\ InLockSection(q) /\ pr[p].code = pr[q].code => p = q


\* C16: when two purchase invocations with the same checkout code overlap,
\* the invocation that commits nothing returns CheckoutAlreadyProcessed or
\* the lock-denied error, and no other outcome.
C16_LoserOutcome ==
  \A p, q \in Procs :
    ( /\ p # q
      /\ pr[p].kind = "purchase" /\ pr[q].kind = "purchase"
      /\ pr[p].code = pr[q].code
      /\ pr[q].code \in pr[p].overlap /\ pr[p].code \in pr[q].overlap
      /\ pr[p].pc = "done" /\ pr[q].pc = "done"
      /\ pr[p].committed /\ ~pr[q].committed )
    => pr[q].ret \in {"CheckoutAlreadyProcessed", "LockDenied"}


\* the response of invocation p reports item i as bought
ReportsSold(p, i) ==
  /\ pr[p].ret = "ok"
  /\ \E k \in DOMAIN pr[p].result.items :
       pr[p].result.items[k].id = i /\ pr[p].result.items[k].sold

\* the response of invocation p is the one of a purchase that lost item i
ReportsLost(p, i) ==
  \/ pr[p].ret = "AllItemsSold" /\ pr[p].ids = <<i>>
  \/ /\ pr[p].ret = "ok"
     /\ pr[p].result.failed >= 1
     /\ \E k \in DOMAIN pr[p].result.items :
          pr[p].result.items[k].id = i /\ ~pr[p].result.items[k].sold

\* C17: when the checkouts of two different users both contain the same
\* unsold item and both codes are purchased concurrently, exactly one
\* purchase reports the item with sold = true, and the other reports
\* AllItemsSold (the item was its only one) or a result with
\* failed_count >= 1 and the item with sold = false.  (The sale is active
\* until both have returned.)
C17_OneWinnerOneLoser ==
  \A p, q \in Procs : \A i \in Items :
    ( /\ p # q
      /\ IsActive(now)
      /\ pr[p].kind = "purchase" /\ pr[q].kind = "purchase"
      /\ pr[p].pc = "done" /\ pr[q].pc = "done"
      /\ pr[p].user # NoUser /\ pr[q].user # NoUser /\ pr[p].user # pr[q].user
      /\ pr[q].code \in pr[p].overlap /\ pr[p].code \in pr[q].overlap
      /\ i \in Range(pr[p].ids) /\ i \in Range(pr[q].ids) )
    => \/ ReportsSold(p, i) /\ ReportsLost(q, i)
       \/ ReportsSold(q, i) /\ ReportsLost(p, i)


\* invocation p committed a transaction in which no item was marked sold
CommittedNothing(p) ==
  /\ pr[p].committed
  /\ \E k \in DOMAIN commitLog :
       commitLog[k].code = pr[p].code /\ commitLog[k].marked = {}

\* C18: a purchase invocation in which no item is marked sold returns
\* AllItemsSold to its caller; and the purchase of a checkout in an active
\* sale whose items are all sold (the code not purchased before, no other
\* purchase running meanwhile) returns SaleLimitExceeded or AllItemsSold.
C18_NothingBoughtIsAllItemsSold ==
  \A p \in Procs :
    (pr[p].kind = "purchase" /\ pr[p].pc = "done") =>
      /\ CommittedNothing(p) => pr[p].ret = "AllItemsSold"
      /\ ( /\ pr[p].soldOut /\ pr[p].user # NoUser /\ IsActive(now)
            /\ pr[p].overlap = {} /\ ~pr[p].afterCommit /\ ~pr[p].committed )
           => pr[p].ret \in {"SaleLimitExceeded", "AllItemsSold"}


\* no checkout is stored under code c
NoCheckoutRows(c) == \A k \in DOMAIN checkoutItems : checkoutItems[k].code # c

\* C19: a purchase invocation whose code has no checkout in the durable
\* store returns CheckoutNotFound, and none of its steps acquires the lock,
\* opens a transaction or changes durable or cache state.
C19_UnknownCode ==
  [][ \A p \in Procs :
        /\ ( /\ pr'[p].kind = "purchase"
             /\ pr'[p].pc # pr[p].pc
             /\ pr[p].pc \in {"idle", "done", "p_exists"} )
           => UNCHANGED <<dbVars, checkoutItems, redisVars>>
        /\ ( /\ pr[p].pc = "p_load"
             /\ pr'[p].pc # pr[p].pc
             /\ NoCheckoutRows(pr[p].code) )
           => /\ pr'[p].pc = "done" /\ pr'[p].ret = "CheckoutNotFound"
              /\ ~pr'[p].txOpen /\ pr'[p].leakTx = 0
              /\ UNCHANGED <<dbVars, checkoutItems, redisVars>> ]_vars

\* a purchase of a code that was never issued has returned CheckoutNotFound
\* and the cache holds neither the code nor a lock
C19_Witness ==
  \E p \in Procs :
    /\ pr[p].kind = "purchase" /\ pr[p].pc = "done"
    /\ pr[p].ret = "CheckoutNotFound"
    /\ pr[p].code >= nextCode
    /\ pr[p].code \notin codeKey /\ pr[p].code \notin lock


\* C20: a checkout call made at a time now >= ended_at of the sale returns
\* SaleNotActive, and none of its steps creates a checkout row or a cache key.
C20_CheckoutAfterEnd ==
  [][ \A p \in Procs :
        ( /\ pr'[p].kind = "checkout" /\ pr'[p].late
          /\ pr'[p].pc # pr[p].pc )
        => /\ UNCHANGED <<dbVars, checkoutItems, redisVars>>
           /\ pr'[p].pc = "done" => pr'[p].ret = "SaleNotActive" ]_vars


\* C21: the durable effects of a purchase attempt are all-or-nothing: the
\* items it marked, the increase of sale.items_sold by their number and the
\* purchase_results row of its code become visible together, in the step
\* that commits its transaction; every other step, and in particular a step
\* in which an attempt fails or is rolled back, leaves the durable state as
\* it was.
C21_AllOrNothing ==
  [][ /\ (<<items, saleItemsSold, purchaseResults>>' # <<items, saleItemsSold, purchaseResults>>)
         => \E p \in Procs :
              /\ pr[p].pc = "p_commit" /\ pr'[p].pc # "p_commit"
              /\ \A i \in pr[p].marked :
                   /\ ~items[i].sold
                   /\ items'[i] = [sold |-> TRUE, soldTo |-> pr[p].user, soldAt |-> pr[p].txNow]
              /\ \A i \in Items \ pr[p].marked : items'[i] = items[i]
              /\ saleItemsSold' = saleItemsSold + Cardinality(pr[p].marked)
              /\ pr[p].code \notin DOMAIN purchaseResults
              /\ DOMAIN purchaseResults' = DOMAIN purchaseResults \cup {pr[p].code}
              /\ purchaseResults'[pr[p].code] = pr[p].result
              /\ \A c \in DOMAIN purchaseResults : purchaseResults'[c] = purchaseResults[c]
      /\ \A p \in Procs :
           (pr[p].txOpen /\ ~pr'[p].txOpen /\ pr'[p].committed = pr[p].committed)
           => UNCHANGED <<items, saleItemsSold, purchaseResults>> ]_vars

\* a transaction with two marked items has committed, and the attempts of
\* another invocation have failed in their transaction: the two items,
\* items_sold = 2 and one result row are what the store shows
C21_Witness ==
  /\ Len(commitLog) = 1 /\ Cardinality(commitLog[1].marked) = 2
  /\ saleItemsSold = 2 /\ DOMAIN purchaseResults = {commitLog[1].code}
  /\ \E q \in Procs :
       /\ pr[q].kind = "purchase" /\ pr[q].pc = "done" /\ ~pr[q].committed
       /\ pr[q].ret \in {"failed to update sale", "failed to save purchase result",
                         "failed to commit transaction"}


\* ================================================ one request at a time
\* The service with no concurrent activity: a request is taken only when no
\* other request is running.  The ids of the two items may alias in the
\* sold-items filter.
InitSolo ==
  /\ now = StartedAt + 1
  /\ items = [i \in Items |-> [sold |-> FALSE, soldTo |-> NoUser, soldAt |-> NoTime]]
  /\ saleItemsSold = 0
  /\ purchaseResults = <<>>
  /\ checkoutItems = <<>>
  /\ userCount = [u \in Users |-> 0]
  /\ saleCount = 0
  /\ checkoutCount = [u \in Users |-> 0]
  /\ userCode = [u \in Users |-> NoCode]
  /\ codeKey = {}
  /\ checkedItems = [u \in Users |-> {}]
  /\ bloomBits = {}
  /\ lock = {}
  /\ hashes \in {DistinctHashes, AliasHashes}
  /\ maxItemsPerUser \in UserLimits
  /\ nextCode = 1
  /\ calls = 0
  /\ pr = [p \in Procs |-> IdleRec]
  /\ commitLog = <<>>
  /\ okCheckouts = [u \in Users |-> 0]
  /\ sales = <<TheSale>>
  /\ sched = SchedIdle
  /\ adm = [p \in Procs |-> AdminIdle]

\* a request is taken while no other request is running
SoloStartCheckout(p) == (\A q \in Procs \ {p} : Free(q)) /\ StartCheckout(p)
SoloStartPurchase(p) == (\A q \in Procs \ {p} : Free(q)) /\ StartPurchase(p)

\* The steps of the handlers; three steps are never enabled without a
\* concurrent request and are left out: the filter add of checkout (an item
\* sold in the store and absent from the filter), the restore of the code
\* key (checkout rows whose key is gone) and the failing COMMIT.
NextSolo ==
  \/ Tick
  \/ \E p \in Procs :
       \/ SoloStartCheckout(p) \/ CheckoutGetActiveSale(p) \/ CheckoutIsActive(p)
       \/ CheckoutBloom(p) \/ CheckoutSlotsPurchased(p) \/ CheckoutSlotsCheckedOut(p)
       \/ CheckoutHasChecked(p) \/ CheckoutGetItem(p)
       \/ CheckoutGetCode(p) \/ CheckoutSetUserCode(p) \/ CheckoutSetCode(p)
       \/ CheckoutLoad(p) \/ CheckoutCreate(p) \/ CheckoutAddItem(p)
       \/ CheckoutIncrement(p) \/ CheckoutMarkChecked(p)
       \/ SoloStartPurchase(p) \/ PurchaseCodeExists(p) \/ PurchaseLoad(p)
       \/ PurchaseLock(p) \/ PurchaseLog(p)
       \/ PurchaseUserCount(p) \/ PurchasePreCheck(p) \/ PurchaseTxRead(p)
       \/ PurchaseBloom(p) \/ PurchaseMark(p) \/ PurchaseBloomAdd(p)
       \/ PurchaseIncrement(p) \/ PurchaseUpdateSale(p) \/ PurchaseSaveResult(p)
       \/ PurchaseCommit(p) \/ PurchaseCleanUser(p)
       \/ PurchaseCleanCode(p) \/ PurchaseDeleteCheckout(p) \/ PurchaseUnlock(p)

SpecSolo == InitSolo /\ [][NextSolo]_vars


\* the items bought under codes other than c
MarkedByOthers(c) ==
  UNION {commitLog[k].marked : k \in {j \in DOMAIN commitLog : commitLog[j].code # c}}

\* user u bought something under a code other than c
BoughtBefore(u, c) ==
  \E k \in DOMAIN commitLog :
    commitLog[k].user = u /\ commitLog[k].code # c /\ commitLog[k].marked # {}

\* C22: with no concurrent activity in an active sale, the checkout of
\* n <= max_user_items distinct unsold items by one user followed by the
\* purchase of the returned code succeeds with total_purchased = n,
\* failed_count = 0 and every item sold = true, leaving exactly those items
\* sold to the user and sale.items_sold increased by n.
C22_SoloCheckoutThenPurchase ==
  \A p \in Procs :
    ( /\ pr[p].kind = "purchase" /\ pr[p].pc = "done"
      /\ IsActive(now)
      /\ pr[p].user # NoUser /\ ~pr[p].afterCommit
      /\ Len(pr[p].ids) >= 1 /\ Len(pr[p].ids) <= maxItemsPerUser
      /\ \A j, k \in DOMAIN pr[p].ids : j # k => pr[p].ids[j] # pr[p].ids[k]
      /\ Range(pr[p].ids) \cap MarkedByOthers(pr[p].code) = {}
      /\ ~BoughtBefore(pr[p].user, pr[p].code) )
    => /\ pr[p].ret = "ok"
       /\ pr[p].result.total = Len(pr[p].ids) /\ pr[p].result.failed = 0
       /\ Len(pr[p].result.items) = Len(pr[p].ids)
       /\ \A k \in DOMAIN pr[p].result.items :
            pr[p].result.items[k].id = pr[p].ids[k] /\ pr[p].result.items[k].sold
       /\ {i \in Items : items[i].sold /\ items[i].soldTo = pr[p].user} = Range(pr[p].ids)
       /\ saleItemsSold = Cardinality(MarkedByOthers(pr[p].code)) + Len(pr[p].ids)


\* C23: an item's sold state is monotone: a sold item's row never changes
\* again (sold stays true, sold_to_user_id stays what it is); an item
\* becomes sold only by the commit of a purchase transaction whose
\* conditional update matched the row as unsold; and a sold item has
\* sold_to_user_id and sold_at set.
C23_SoldMonotone ==
  [][ \A i \in Items :
        /\ items[i].sold => items'[i] = items[i]
        /\ (~items[i].sold /\ items'[i].sold)
             => \E p \in Procs :
                  /\ pr[p].kind = "purchase" /\ pr[p].pc = "p_commit" /\ pr[p].txOpen
                  /\ i \in pr[p].marked /\ i \notin pr[p].snapSold
                  /\ items'[i].soldTo = pr[p].user
        /\ items'[i].sold => items'[i].soldTo # NoUser /\ items'[i].soldAt # NoTime ]_vars

\* two purchase transactions have committed one after the other, each with
\* an item: the item of the first is still sold to its buyer, with its time
C23_Witness ==
  /\ Len(commitLog) = 2
  /\ commitLog[1].marked # {} /\ commitLog[2].marked # {}
  /\ \A i \in commitLog[1].marked :
       /\ items[i].sold /\ items[i].soldTo = commitLog[1].user
       /\ items[i].soldAt # NoTime


\* ==================================================== the creation of sales
\* The sales table under the scheduler and the admin endpoint.  Time runs
\* from 0 to MaxTime in ticks, HourLen ticks to the hour; at most MaxSales
\* rows are inserted.
MaxTime == 3
HourLen == 2
MaxSales == 2

Times == 0..MaxTime

\* time.Date(now.Year(), now.Month(), now.Day(), now.Hour(), 0, 0, 0, UTC)
TruncateToHour(t) == t - (t % HourLen)

\* the rows of SaleRepository.GetActiveSale at time t:
\* WHERE started_at <= NOW() AND ended_at > NOW()
ActiveSales(t) == {k \in DOMAIN sales : sales[k].startedAt <= t /\ sales[k].endedAt > t}

\* everything but the clock and the sales table
otherVars == <<dbVars, checkoutItems, redisVars, hashes, maxItemsPerUser, nextCode,
               calls, pr, histVars>>

InitSales ==
  /\ now = 0
  /\ items = [i \in Items |-> [sold |-> FALSE, soldTo |-> NoUser, soldAt |-> NoTime]]
  /\ saleItemsSold = 0
  /\ purchaseResults = <<>>
  /\ checkoutItems = <<>>
  /\ userCount = [u \in Users |-> 0]
  /\ saleCount = 0
  /\ checkoutCount = [u \in Users |-> 0]
  /\ userCode = [u \in Users |-> NoCode]
  /\ codeKey = {}
  /\ checkedItems = [u \in Users |-> {}]
  /\ bloomBits = {}
  /\ lock = {}
  /\ hashes = DistinctHashes
  /\ maxItemsPerUser = 2
  /\ nextCode = 1
  /\ calls = 0
  /\ pr = [p \in Procs |-> IdleRec]
  /\ commitLog = <<>>
  /\ okCheckouts = [u \in Users |-> 0]
  /\ sales = <<>>
  /\ sched = SchedIdle
  /\ adm = [p \in Procs |-> AdminIdle]

TickSales ==
  /\ now < MaxTime
  /\ now' = now + 1
  /\ UNCHANGED <<otherVars, saleVars>>

\* SaleScheduler.createSaleIfNeeded, called by Start and then by the hourly
\* ticker: saleRepo.GetActiveSale
SchedCheck ==
  /\ sched.pc = "idle"
  /\ sched.lastRun = NoTime \/ now = sched.lastRun + HourLen
  /\ sched' = [pc |-> IF ActiveSales(now) # {} THEN "idle" ELSE "create", lastRun |-> now]
  /\ UNCHANGED <<now, otherVars, sales, adm>>

\* createSaleIfNeeded: the sale of the current hour, saleRepo.CreateSale
SchedCreate ==
  /\ sched.pc = "create"
  /\ Len(sales) < MaxSales
  /\ sales' = Append(sales, [startedAt |-> TruncateToHour(now),
                             endedAt |-> TruncateToHour(now) + HourLen])
  /\ sched' = [sched EXCEPT !.pc = "idle"]
  /\ UNCHANGED <<now, otherVars, adm>>

\* AdminHandler.HandleCreateSale: the request body and its validation;
\* s and e are the started_at and ended_at of the request, NoTime when absent
AdminStart(p) ==
  /\ adm[p].pc = "idle"
  /\ \E s \in Times \cup {NoTime}, e \in Times \cup {NoTime} :
       LET startedAt == IF s # NoTime THEN s ELSE TruncateToHour(now)
           endedAt == IF e # NoTime THEN e ELSE startedAt + HourLen
       IN /\ ~(startedAt > endedAt)        \* else 400, validation failed
          /\ adm' = [adm EXCEPT ![p] = [pc |-> "check", startedAt |-> startedAt,
                                        endedAt |-> endedAt]]
  /\ UNCHANGED <<now, otherVars, sales, sched>>

\* HandleCreateSale: saleRepo.GetActiveSale, 409 when a sale is active
AdminCheck(p) ==
  /\ adm[p].pc = "check"
  /\ adm' = [adm EXCEPT ![p] = IF ActiveSales(now) # {} THEN AdminIdle
                               ELSE [adm[p] EXCEPT !.pc = "create"]]
  /\ UNCHANGED <<now, otherVars, sales, sched>>

\* HandleCreateSale: saleRepo.CreateSale
AdminCreate(p) ==
  /\ adm[p].pc = "create"
  /\ Len(sales) < MaxSales
  /\ sales' = Append(sales, [startedAt |-> adm[p].startedAt, endedAt |-> adm[p].endedAt])
  /\ adm' = [adm EXCEPT ![p] = AdminIdle]
  /\ UNCHANGED <<now, otherVars, sched>>

NextSales ==
  \/ TickSales
  \/ SchedCheck
  \/ SchedCreate
  \/ \E p \in Procs : AdminStart(p) \/ AdminCheck(p) \/ AdminCreate(p)

SpecSales == InitSales /\ [][NextSales]_vars

\* C24: at every instant at most one sale satisfies
\* started_at <= now < ended_at, for any interleaving of scheduler runs and
\* admin sale creations, with or without explicit times.
C24_OneActiveSale == Cardinality(ActiveSales(now)) <= 1


\* ------------------------------------------------- the retry loop (C25)
\* the positions of a goroutine inside attemptPurchase
AttemptPcs ==
  {"p_log", "p_ucount", "p_scount", "p_txread", "p_bloom", "p_mark", "p_badd",
   "p_incr", "p_upd", "p_save", "p_commit"}

\* the positions after the loop has ended with a success
AfterLoopPcs == {"p_clean1", "p_clean2", "p_clean3", "p_unlock"}

\* the errors the retry loop is said not to retry
NotRetried ==
  {"CheckoutNotFound", "SaleNotFound", "UserLimitExceeded", "CheckoutAlreadyProcessed"}

\* C25: the loop runs at most RetryAttempts (2) attempts; an attempt that
\* fails with one of the four business errors, or the last attempt, ends the
\* invocation with that error and no further attempt; any other error of an
\* earlier attempt starts the next attempt; after a successful attempt no
\* attempt is started again.
C25_RetryLoop ==
  [][\A p \in Procs :
       /\ pr'[p].attempt <= RetryAttempts - 1
       /\ (/\ pr[p].kind = "purchase"
           /\ pr[p].pc \in AttemptPcs
           /\ pr'[p].pc \in {"p_unlock", "p_log"}
           /\ pr'[p].pc # pr[p].pc)
          => IF pr'[p].lastErr \in NotRetried \/ pr[p].attempt = RetryAttempts - 1
             THEN /\ pr'[p].pc = "p_unlock"
                  /\ pr'[p].ret = pr'[p].lastErr
                  /\ pr'[p].attempt = pr[p].attempt
             ELSE /\ pr'[p].pc = "p_log"
                  /\ pr'[p].attempt = pr[p].attempt + 1
                  /\ pr'[p].lastErr # ""
       /\ (/\ pr[p].kind = "purchase"
           /\ pr[p].pc \in AfterLoopPcs
           /\ pr'[p].pc # pr[p].pc)
          => pr'[p].pc \notin AttemptPcs]_vars

\* a second attempt, started after an error that is retried, has ended the
\* invocation with a business error
C25_Witness ==
  \E p \in Procs :
    /\ pr[p].kind = "purchase" /\ pr[p].pc = "p_unlock"
    /\ pr[p].attempt = 1
    /\ pr[p].ret \in NotRetried


\* --------------------------------------------- a checkout of three items
\* An inventory in which a checkout of three items stays below both limits,
\* with item ids whose filter bits do not overlap; the user limit of the build
\* (10) lies above the size of a checkout as well.
WideItems == {"I1", "I2", "I3", "I4", "I5"}
WideHashes ==
  [i \in WideItems |->
     [h1 |-> CHOOSE k \in 0..BloomM : i = <<"I1", "I2", "I3", "I4", "I5">>[k + 1],
      h2 |-> BloomM]]

\* u1 holds a checkout of I1, I2, I3 and u2 a checkout of I2; purchases follow
InitRetry ==
  /\ now = StartedAt + 1
  /\ items = [i \in WideItems |-> [sold |-> FALSE, soldTo |-> NoUser, soldAt |-> NoTime]]
  /\ saleItemsSold = 0
  /\ purchaseResults = <<>>
  /\ checkoutItems = <<Row(1, 1, "u1", "I1"), Row(1, 1, "u1", "I2"),
                       Row(1, 1, "u1", "I3"), Row(2, 2, "u2", "I2")>>
  /\ userCount = [u \in Users |-> 0]
  /\ saleCount = 0
  /\ checkoutCount = [u \in Users |-> RowsOfUser(checkoutItems, u)]
  /\ userCode = [u \in Users |-> IF u = "u1" THEN 1 ELSE 2]
  /\ codeKey = {1, 2}
  /\ checkedItems = [u \in Users |-> ItemsOfUser(checkoutItems, u)]
  /\ bloomBits = {}
  /\ lock = {}
  /\ hashes = WideHashes
  /\ maxItemsPerUser = 4
  /\ nextCode = 3
  /\ calls = MaxCalls - RaceCalls
  /\ pr = [p \in Procs |-> IdleRec]
  /\ commitLog = <<>>
  /\ okCheckouts = [u \in Users |-> RowsOfUser(checkoutItems, u)]
  /\ sales = <<TheSale>>
  /\ sched = SchedIdle
  /\ adm = [p \in Procs |-> AdminIdle]

NextRetry ==
  \/ Tick
  \/ LockExpire
  \/ \E p \in Procs : PurchaseStep(p)

SpecRetry == InitRetry /\ [][NextRetry]_vars


\* C26: over all attempts of one purchase invocation cache.IncrementCounters
\* adds the number of bought items to sale:{S}:items_sold and
\* user:{U}:sale:{S}:count at most once.
C26_CountersOnce == \A p \in Procs : pr[p].incs <= 1


\* C27: in an attempt the counters sale:{S}:items_sold and
\* user:{U}:sale:{S}:count are increased only once the attempt's transaction has
\* committed, and an attempt that ends without a commit has not increased them.
C27_IncrementAfterCommit ==
  [][\A p \in Procs :
       /\ (/\ pr[p].kind = "purchase"
           /\ pr[p].pc = "p_incr" /\ pr'[p].pc # "p_incr"
           /\ (saleCount' # saleCount \/ userCount' # userCount))
          => /\ ~pr[p].txOpen
             /\ pr[p].code \in DOMAIN purchaseResults
       /\ (/\ pr[p].kind = "purchase"
           /\ pr[p].pc \in {"p_upd", "p_save", "p_commit"}
           /\ pr'[p].pc \in {"p_log", "p_unlock"}
           /\ commitLog' = commitLog)
          => Len(pr[p].successful) = 0]_vars


\* C28: no transaction opened by a purchase attempt is still open once that
\* attempt has returned: a goroutine holds no transaction of an earlier
\* attempt, and holds an open transaction only inside attemptPurchase.
C28_NoOpenTransaction ==
  \A p \in Procs :
    pr[p].kind = "purchase"
      => /\ pr[p].leakTx = 0
         /\ pr[p].txOpen => pr[p].pc \in AttemptPcs


C30_CheckoutCleanedUp ==
  \A c \in Codes :
    CommittedAndReturned(c)
      => /\ RowsOf(c) = <<>>
         /\ c \notin codeKey
         /\ \A u \in Users : userCode[u] # c


\* ------------------------------------------------ checkout reserves nothing
\* C31: no step of a checkout call, whether the call succeeds or fails,
\* changes an item's sold state or buyer, sales.items_sold, purchase_results,
\* sale:{S}:items_sold or user:{U}:sale:{S}:count.
C31_CheckoutReservesNothing ==
  [][(\E p \in Procs : pr'[p].kind = "checkout" /\ pr'[p].pc # pr[p].pc)
       => UNCHANGED <<items, saleItemsSold, purchaseResults, saleCount, userCount>>]_vars

\* two different users have both checked out the same item, which is unsold
C31_Witness ==
  \E p, q \in Procs, i \in Items :
    /\ pr[p].kind = "checkout" /\ pr[p].pc = "done" /\ pr[p].ret = "ok"
    /\ pr[q].kind = "checkout" /\ pr[q].pc = "done" /\ pr[q].ret = "ok"
    /\ pr[p].user # pr[q].user
    /\ pr[p].item = i /\ pr[q].item = i
    /\ ~items[i].sold
    /\ \A u \in Users : i \in ItemsOfUser(checkoutItems, u)


\* ---------------------------------------------------- the sale's interval
\* The service from the instant the sale starts (now = started_at), one
\* request at a time.
InitOpening ==
  /\ now = StartedAt
  /\ items = [i \in Items |-> [sold |-> FALSE, soldTo |-> NoUser, soldAt |-> NoTime]]
  /\ saleItemsSold = 0
  /\ purchaseResults = <<>>
  /\ checkoutItems = <<>>
  /\ userCount = [u \in Users |-> 0]
  /\ saleCount = 0
  /\ checkoutCount = [u \in Users |-> 0]
  /\ userCode = [u \in Users |-> NoCode]
  /\ codeKey = {}
  /\ checkedItems = [u \in Users |-> {}]
  /\ bloomBits = {}
  /\ lock = {}
  /\ hashes = DistinctHashes
  /\ maxItemsPerUser \in UserLimits
  /\ nextCode = 1
  /\ calls = 0
  /\ pr = [p \in Procs |-> IdleRec]
  /\ commitLog = <<>>
  /\ okCheckouts = [u \in Users |-> 0]
  /\ sales = <<TheSale>>
  /\ sched = SchedIdle
  /\ adm = [p \in Procs |-> AdminIdle]

SpecOpening == InitOpening /\ [][NextSolo]_vars

\* C32: Sale.IsActive(now) holds exactly when started_at <= now < ended_at:
\* the checkout handler passes its activity check exactly at those times, and
\* a purchase attempt is refused as not active at no such time.
C32_ActiveInterval ==
  [][\A p \in Procs :
       /\ (pr[p].kind = "checkout" /\ pr[p].pc = "c_active" /\ pr'[p].pc # "c_active")
          => (pr'[p].pc = "c_bloom" <=> (StartedAt <= now /\ now < EndedAt))
       /\ (/\ pr[p].kind = "purchase" /\ pr[p].pc = "p_txread" /\ pr'[p].pc # "p_txread"
           /\ pr'[p].lastErr = "purchase validation failed: SaleNotActive")
          => ~(StartedAt <= now /\ now < EndedAt)]_vars


\* ------------------------------------------------ the single-key scripts
\* C33: AtomicUserLimitCheck and AtomicSaleLimitCheck called with (n, max)
\* answer false and leave the key as it was when the key's value plus n
\* exceeds max, and otherwise add exactly n to the key and answer true; no
\* other counter changes.
C33_LimitScripts ==
  [][\E p \in Procs :
       /\ pr'[p].kind \in {"userlimit", "salelimit"}
       /\ \A q \in Procs \ {p} : pr'[q] = pr[q]
       /\ LET n == pr'[p].args[1]
              max == pr'[p].args[2]
              u == pr'[p].user
          IN IF pr'[p].kind = "userlimit"
             THEN /\ saleCount' = saleCount
                  /\ \A v \in Users \ {u} : userCount'[v] = userCount[v]
                  /\ IF userCount[u] + n > max
                     THEN pr'[p].ret = "false" /\ userCount'[u] = userCount[u]
                     ELSE pr'[p].ret = "true" /\ userCount'[u] = userCount[u] + n
             ELSE /\ userCount' = userCount
                  /\ IF saleCount + n > max
                     THEN pr'[p].ret = "false" /\ saleCount' = saleCount
                     ELSE pr'[p].ret = "true" /\ saleCount' = saleCount + n]_vars

\* a call that reaches the user's limit exactly has been admitted, and a later
\* call of the same user is refused
C33_Witness ==
  \E p, q \in Procs :
    /\ pr[p].kind = "userlimit" /\ pr[p].ret = "true" /\ pr[p].args[1] > 0
    /\ userCount[pr[p].user] = pr[p].args[2]
    /\ pr[q].kind = "userlimit" /\ pr[q].ret = "false" /\ pr[q].user = pr[p].user
    /\ pr[q].args[1] > 0
    /\ userCount[pr[q].user] + pr[q].args[1] > pr[q].args[2]


\* ------------------------------------------------- the sold-items filter
\* C34: once the requests that added them have returned, the item ids in the
\* sold-items filter are sold in the committed items table: no unsold item is
\* left in the filter by an attempt whose transaction did not commit.  (The
\* ids of the inventory have disjoint filter bits here, so an id is in the
\* filter only if it was added.)
C34_FilterOnlySold ==
  (hashes = DistinctHashes /\ \A p \in Procs : Free(p))
    => \A i \in Items : Contains(i) => items[i].sold


\* ------------------------------------------- checkout after the purchase
\* C35: checkout never appends an item to, and never answers with, a checkout
\* code that already has a purchase_results record.
C35_NoCheckoutOnPurchasedCode ==
  [][\A p \in Procs :
       (/\ pr[p].kind = "checkout"
        /\ pr'[p].pc # pr[p].pc
        /\ \/ Len(checkoutItems') > Len(checkoutItems)
           \/ (pr'[p].pc = "done" /\ pr'[p].ret = "ok"))
       => pr'[p].code \notin DOMAIN purchaseResults]_vars


\* C36: an item that checkout has added to code C is not dropped by a
\* purchase of C: when the purchase's cleanup deletes the checkout rows of C,
\* every item in those rows is among the items that purchase attempted.
C36_NoItemDropped ==
  [][\A p \in Procs :
       (pr[p].kind = "purchase" /\ pr[p].pc = "p_clean3" /\ pr'[p].pc # "p_clean3")
       => Range(CheckoutItemIDs(pr[p].code)) \subseteq Range(pr[p].ids)]_vars


\* ------------------------------------------------ the buyer of an item
\* The service with an items table that also holds an item of an earlier
\* sale; requests run concurrently.
ForeignHashes ==
  [i \in Items \cup ForeignItems |->
     IF i \in Items THEN DistinctHashes[i] ELSE [h1 |-> 1, h2 |-> 2]]

InitForeign ==
  /\ now = StartedAt + 1
  /\ items = [i \in Items \cup ForeignItems |->
                [sold |-> FALSE, soldTo |-> NoUser, soldAt |-> NoTime]]
  /\ saleItemsSold = 0
  /\ purchaseResults = <<>>
  /\ checkoutItems = <<>>
  /\ userCount = [u \in Users |-> 0]
  /\ saleCount = 0
  /\ checkoutCount = [u \in Users |-> 0]
  /\ userCode = [u \in Users |-> NoCode]
  /\ codeKey = {}
  /\ checkedItems = [u \in Users |-> {}]
  /\ bloomBits = {}
  /\ lock = {}
  /\ hashes = ForeignHashes
  /\ maxItemsPerUser = 2
  /\ nextCode = 1
  /\ calls = 0
  /\ pr = [p \in Procs |-> IdleRec]
  /\ commitLog = <<>>
  /\ okCheckouts = [u \in Users |-> 0]
  /\ sales = <<TheSale>>
  /\ sched = SchedIdle
  /\ adm = [p \in Procs |-> AdminIdle]

SpecForeign == InitForeign /\ [][Next]_vars

\* C37: every sold item was sold to a user whose checkout contained it (the
\* user's checked-out items hold it, or the user's checkout call that added
\* it is about to return), and the item belongs to the sale of that
\* checkout.
C37_SoldToCheckoutUser ==
  \A i \in DOMAIN items :
    items[i].sold
      => /\ ItemSaleID(i) = SaleID
         /\ \/ i \in checkedItems[items[i].soldTo]
            \/ \E p \in Procs :
                 /\ pr[p].kind = "checkout" /\ pr[p].pc \in {"c_inc", "c_mark"}
                 /\ pr[p].user = items[i].soldTo /\ pr[p].item = i

\* an item has been sold to the user who checked it out, and a checkout of
\* the item of the earlier sale has been refused
C37_Witness ==
  /\ \E i \in Items : items[i].sold /\ i \in checkedItems[items[i].soldTo]
  /\ \E p \in Procs : pr[p].kind = "checkout" /\ pr[p].ret = "ItemNotInSale"


\* ------------------------------------------------ purchase after the end
\* C38: a transaction that commits belongs to an attempt that was validated
\* while the sale was active, and a purchase invoked at or after ended_at
\* changes no item, not sales.items_sold and not purchase_results.
C38_NoSaleAfterEnd ==
  [][\A p \in Procs :
       /\ (pr[p].kind = "purchase" /\ pr[p].pc = "p_commit" /\ commitLog' # commitLog)
          => (StartedAt < pr[p].txNow /\ pr[p].txNow < EndedAt)
       /\ (pr[p].kind = "purchase" /\ pr[p].late /\ pr'[p].pc # pr[p].pc)
          => UNCHANGED <<items, saleItemsSold, purchaseResults>>]_vars

\* a purchase invoked at ended_at was refused by the validation of both
\* attempts and has returned
C38_Witness ==
  \E p \in Procs :
    /\ pr[p].kind = "purchase" /\ pr[p].pc = "done" /\ pr[p].late
    /\ pr[p].ret = "purchase validation failed: SaleNotActive"
    /\ \A i \in Range(pr[p].ids) : ~items[i].sold


\* ---------------------------------------------------------------------------
\* the counts of a purchase result
\* ---------------------------------------------------------------------------

\* number of entries of a result's item list reported as sold
SoldEntries(r) == Cardinality({k \in DOMAIN r.items : r.items[k].sold})

\* C39: every result a purchase attempt computes, and every purchase_results
\* row, has total_purchased + failed_count = number of entries in items,
\* total_purchased = number of entries with sold = true, and success true
\* exactly when total_purchased > 0.
C39_ResultCounts ==
  /\ \A p \in Procs :
       (pr[p].kind = "purchase" /\ pr[p].result # EmptyResult)
       => /\ pr[p].result.total + pr[p].result.failed = Len(pr[p].result.items)
          /\ pr[p].result.total = SoldEntries(pr[p].result)
          /\ pr[p].result.success <=> (pr[p].result.total > 0)
  /\ \A c \in DOMAIN purchaseResults :
       /\ purchaseResults[c].total + purchaseResults[c].failed = Len(purchaseResults[c].items)
       /\ purchaseResults[c].total = SoldEntries(purchaseResults[c])
       /\ purchaseResults[c].success <=> (purchaseResults[c].total > 0)

====
